---- MODULE Spec2Model ----
(***************************************************************************)
(* Model of the open-coder agent (type SimpleAgent): the session registry, *)
(* the capability catalog with its schema normalization, the dispatcher    *)
(* CallTool and the conversation loop ProcessUserInput.                    *)
(***************************************************************************)
EXTENDS Integers, Sequences, FiniteSets, TLC

(***************************************************************************)
(* Bounds of the model.                                                    *)
(***************************************************************************)
\* sessions main may register (directory entries ending in -cli)
MaxServers == 3
\* sessions registered in the aggregation specification
CatalogServers == 2
\* tools one session lists in the aggregation specification
MaxTools == 2
\* entries of a source schema's "required" list
MaxRequired == 2
\* messages of a conversation
MaxMessages == 7
\* call requests in one assistant message
MaxCalls == 2

(***************************************************************************)
(* JSON values, as far as the code inspects them.  A value is a record     *)
(* tagged by kind; a key that a JSON object lacks is the value Missing.    *)
(***************************************************************************)
Missing == [kind |-> "missing"]
JsonNull == [kind |-> "null"]
JsonNumber == [kind |-> "number"]
JsonString(s) == [kind |-> "string", val |-> s]
JsonMap(m) == [kind |-> "map", val |-> m]
JsonList(l) == [kind |-> "list", val |-> l]

\* map[string]any{} : no entries
EmptyProps == [k \in {} |-> "string"]

\* the reserved parameter name
ReservedParam == "uid"

PropNames == {ReservedParam, "path"}
PropTypes == {"string"}
PropertyMaps == UNION {[K -> PropTypes] : K \in SUBSET PropNames}

RequiredEntries == {JsonString(ReservedParam), JsonString("path"), JsonNumber}
RequiredLists == UNION {[1..n -> RequiredEntries] : n \in 0..MaxRequired}

TypeValues == {Missing, JsonNumber, JsonString("object"), JsonString("string")}
PropertiesValues == {Missing, JsonNull, JsonString("x")} \cup {JsonMap(m) : m \in PropertyMaps}
RequiredValues == {Missing, JsonString("x")} \cup {JsonList(l) : l \in RequiredLists}

\* a JSON object with the three keys the code reads
SchemaObjects == [type : TypeValues, properties : PropertiesValues, required : RequiredValues]

\* map[string]any{} as produced by line 1019
EmptyObject == [type |-> Missing, properties |-> Missing, required |-> Missing]

\* Tool.InputSchema as a session advertises it: a Go nil, a value that
\* marshals to JSON null, a JSON document that is no object (a boolean
\* schema), or a JSON object.
SchemaNil == [kind |-> "nil"]
SchemaNull == [kind |-> "null"]
SchemaBool == [kind |-> "bool"]
SchemaObject(o) == [kind |-> "object", val |-> o]
AllSchemas == {SchemaNil, SchemaNull, SchemaBool} \cup {SchemaObject(o) : o \in SchemaObjects}

(***************************************************************************)
(* State of a SimpleAgent and of its collaborators.                        *)
(***************************************************************************)
VARIABLES
  servers,    \* a.servers: the session registry, session names in order
  tools,      \* a.tools: the cached catalog
  provided,   \* the tools the provider behind each session exposes
  listed,     \* what each session answered to ListTools in the last refresh
  systemPrompt, \* a.systemPrompt: the prompt InitConversation was given
  messages,   \* a.messages: the conversation
  pc,         \* where ProcessUserInput stands (the loop's state)
  acc,        \* the accumulated message of the round being executed
  callIdx,    \* position in acc's tool calls of the call being executed
  call,       \* the frame of the CallTool in flight
  finished,   \* the calls of the round that returned: position and frame
  request,    \* parameters of the last completion request
  stream,     \* the stream of that request: open, ended or failed
  ret,        \* the last call of the agent's API and the error it returned
  stage,      \* where main stands, "api" when the agent runs without main
  closed,     \* the sessions Close has closed, in order
  ctxErr,     \* a.ctx.Err(): "" while the context is not done
  config,     \* the Config main has got: a.apiKey, a.baseURL, a.model
  menu,       \* the Config the configuration menu edits
  configFile, \* what ~/.open-coder/config holds
  tree        \* the working directory of the file-access server

catalogVars == <<servers, provided, tools, listed>>
turnVars == <<systemPrompt, messages, pc, acc, callIdx, call, finished, request, stream>>
mainVars == <<stage, closed, ctxErr, config, menu, configFile, tree>>
vars == <<servers, provided, tools, listed, systemPrompt, messages, pc, acc, callIdx,
          call, finished, request, stream, ret, stage, closed, ctxErr, config, menu, configFile, tree>>

NoError == [kind |-> "nil"]
Returned(op, err) == [op |-> op, err |-> err]

\* a.ctx.Err()
NoCtxErr == ""
Canceled == "context canceled"
DeadlineExceeded == "context deadline exceeded"

\* a file, a directory with its entries by name, and no entry at all
File == [kind |-> "file"]
Dir(entries) == [kind |-> "dir", entries |-> entries]
NoEntry == [kind |-> "none"]
NotDir == [kind |-> "notdir"]

\* the zero Config and the absent file
NoConfig == [apiKey |-> "", baseURL |-> "", model |-> ""]
NoFile == [kind |-> "absent"]

\* the agent is driven through its methods, with a context that is not
\* done; main, its configuration and its shutdown play no part
Embedded ==
  /\ stage = "api"
  /\ closed = <<>>
  /\ ctxErr = NoCtxErr
  /\ config = NoConfig
  /\ menu = NoConfig
  /\ configFile = NoFile
  /\ tree = Dir(<<>>)

(***************************************************************************)
(* buildOpenAIToolsFromMCP: one session's listing into catalog entries.    *)
(***************************************************************************)
\* json.Marshal of the schema followed by json.Unmarshal into a
\* map[string]any; an absent schema is replaced by the default object.
DecodeSchema(s) ==
  CASE s.kind = "nil" ->
         [err |-> FALSE, isNil |-> FALSE,
          obj |-> [type |-> JsonString("object"),
                   properties |-> JsonMap(EmptyProps), required |-> Missing]]
    [] s.kind = "null" -> [err |-> FALSE, isNil |-> TRUE, obj |-> EmptyObject]
    [] s.kind = "bool" -> [err |-> TRUE, isNil |-> TRUE, obj |-> EmptyObject]
    [] s.kind = "object" -> [err |-> FALSE, isNil |-> FALSE, obj |-> s.val]

\* if paramsObj == nil { paramsObj = map[string]any{} }
ForceNonNil(d) == IF d.isNil THEN EmptyObject ELSE d.obj

\* ForceType with the test reduced to !ok
ForceType_OnlyMissing(p) ==
  IF p.type = Missing THEN [p EXCEPT !.type = JsonString("object")] ELSE p

\* if v, ok := paramsObj["type"]; !ok || v != "object"
ForceType(p) ==
  IF p.type = Missing \/ p.type # JsonString("object")
  THEN [p EXCEPT !.type = JsonString("object")]
  ELSE p

\* if _, ok := paramsObj["properties"]; !ok
DefaultProperties(p) ==
  IF p.properties = Missing
  THEN [p EXCEPT !.properties = JsonMap(EmptyProps)]
  ELSE p

\* if props, ok := paramsObj["properties"].(map[string]any); !ok || props == nil
ForcePropertiesMap(p) ==
  IF p.properties.kind # "map"
  THEN [p EXCEPT !.properties = JsonMap(EmptyProps)]
  ELSE p

\* reqStr, ok := req.(string); ok && reqStr != "uid"
KeepRequired(req) == req.kind = "string" /\ req.val # ReservedParam

\* FilterUid deleting the property only when required does not name it
FilterUid_EitherOr(p) ==
  LET props == p.properties.val
      named == p.required.kind = "list" /\
               \E i \in DOMAIN p.required.val : p.required.val[i] = JsonString(ReservedParam)
  IN  IF ReservedParam \in DOMAIN props
      THEN IF named
           THEN [p EXCEPT !.required =
                            JsonList(SelectSeq(p.required.val, KeepRequired))]
           ELSE [p EXCEPT !.properties =
                            JsonMap([k \in (DOMAIN props) \ {ReservedParam} |-> props[k]])]
      ELSE p

\* the block "Filter out 'uid' parameter"
FilterUid(p) ==
  LET props == p.properties.val
  IN  IF ReservedParam \in DOMAIN props
      THEN LET deleted == [k \in (DOMAIN props) \ {ReservedParam} |-> props[k]]
               p1 == [p EXCEPT !.properties = JsonMap(deleted)]
           IN  IF p.required.kind = "list"
               THEN [p1 EXCEPT !.required =
                                 JsonList(SelectSeq(p.required.val, KeepRequired))]
               ELSE p1
      ELSE p

\* the block "Normalize schema" followed by the uid filter
NormalizeSchema(d) ==
  FilterUid(ForcePropertiesMap(DefaultProperties(ForceType(ForceNonNil(d)))))

\* one iteration of the loop over res.Tools
ConvertTool(t) ==
  LET d == DecodeSchema(t.inputSchema)
  IN  [err |-> d.err,
       tool |-> [name |-> t.name, description |-> t.description,
                 parameters |-> NormalizeSchema(d)]]

RECURSIVE ConvertTools_SkipFailed(_, _)
\* ConvertTools leaving out the tool whose schema cannot be converted
ConvertTools_SkipFailed(rest, out) ==
  IF rest = <<>>
  THEN [err |-> FALSE, out |-> out]
  ELSE LET c == ConvertTool(Head(rest))
       IN  IF c.err
           THEN ConvertTools_SkipFailed(Tail(rest), out)
           ELSE ConvertTools_SkipFailed(Tail(rest), Append(out, c.tool))

RECURSIVE ConvertTools(_, _)
\* the loop over res.Tools: an error on any tool abandons the whole listing
ConvertTools(rest, out) ==
  IF rest = <<>>
  THEN [err |-> FALSE, out |-> out]
  ELSE LET c == ConvertTool(Head(rest))
       IN  IF c.err
           THEN [err |-> TRUE, out |-> <<>>]
           ELSE ConvertTools(Tail(rest), Append(out, c.tool))

\* a session's answer to ListTools
ListError == [err |-> TRUE, tools |-> <<>>]
Listing(ts) == [err |-> FALSE, tools |-> ts]

buildOpenAIToolsFromMCP(res) ==
  IF res.err THEN [err |-> TRUE, out |-> <<>>] ELSE ConvertTools(res.tools, <<>>)

RECURSIVE GetAllToolsFrom_Prepend(_, _, _)
\* GetAllToolsFrom putting each session's tools in front of the earlier ones
GetAllToolsFrom_Prepend(answers, i, allTools) ==
  IF i > Len(answers)
  THEN allTools
  ELSE LET b == buildOpenAIToolsFromMCP(answers[i])
       IN  IF b.err
           THEN GetAllToolsFrom_Prepend(answers, i + 1, allTools)
           ELSE GetAllToolsFrom_Prepend(answers, i + 1, b.out \o allTools)

RECURSIVE GetAllToolsFrom(_, _, _)
\* the loop of GetAllTools from session i on
GetAllToolsFrom(answers, i, allTools) ==
  IF i > Len(answers)
  THEN allTools
  ELSE LET b == buildOpenAIToolsFromMCP(answers[i])
       IN  IF b.err
           THEN GetAllToolsFrom(answers, i + 1, allTools)
           ELSE GetAllToolsFrom(answers, i + 1, allTools \o b.out)

\* GetAllTools never returns an error
GetAllTools(answers) == [err |-> NoError, tools |-> GetAllToolsFrom(answers, 1, <<>>)]

(***************************************************************************)
(* Inputs: what sessions list.                                             *)
(***************************************************************************)
SourceTool(n, s) == [name |-> n, description |-> "about " \o n, inputSchema |-> s]

\* one tool with any schema
NormalizeToolLists == {<<SourceTool("read_file", s)>> : s \in AllSchemas}

\* the input schema createReadFileTool declares for read_file
ReadFileSchema ==
  SchemaObject([type |-> JsonString("object"),
                properties |-> JsonMap([path |-> "string", offset |-> "number",
                                        limit |-> "number",
                                        show_line_numbers |-> "boolean"]),
                required |-> JsonList(<<JsonString("path")>>)])

\* the schema of a provider that is not the repository's: its tool
\* declares the reserved parameter and requires it
UidSchema ==
  SchemaObject([type |-> JsonString("object"),
                properties |-> JsonMap([k \in PropNames |-> "string"]),
                required |-> JsonList(<<JsonString(ReservedParam), JsonString("path")>>)])
CatalogTools ==
  {SourceTool("read_file", ReadFileSchema), SourceTool("read_file", UidSchema),
   SourceTool("run_command", SchemaBool)}
\* a provider lists no tool twice
Injective(f) == \A i, j \in DOMAIN f : f[i] = f[j] => i = j
CatalogToolLists ==
  {ts \in UNION {[1..n -> CatalogTools] : n \in 0..MaxTools} : Injective(ts)}

(***************************************************************************)
(* Messages of the conversation.                                           *)
(***************************************************************************)
NoCalls == <<>>
SystemMessage(text) ==
  [role |-> "system", content |-> text, toolCalls |-> NoCalls, toolCallID |-> ""]
\* UserMessage with the role of the system prompt
UserMessage_AsSystem(text) ==
  [role |-> "system", content |-> text, toolCalls |-> NoCalls, toolCallID |-> ""]
UserMessage(text) ==
  [role |-> "user", content |-> text, toolCalls |-> NoCalls, toolCallID |-> ""]
ToolMessage(text, id) ==
  [role |-> "tool", content |-> text, toolCalls |-> NoCalls, toolCallID |-> id]
\* ChatCompletionMessage.ToParam: content and tool calls are carried over
ToParam(m) ==
  [role |-> "assistant", content |-> m.content, toolCalls |-> m.toolCalls,
   toolCallID |-> ""]

\* the system prompt main gives to InitConversation
SystemPrompt ==
  "You are a helpful assistant with access to multiple powerful tools. You can use file operations tools to read, write, search, and manage files, as well as terminal command tools to execute any system commands. Always use the appropriate tools when they would help provide accurate information, and think step by step when using tools. Users can type '/settings' to customize the assistant's appearance."

\* IsBlank that knows the empty text only
IsBlank_OnlyEmpty(text) == text = ""

\* strings.TrimSpace(userInput) == ""
IsBlank(text) == text \in {"", " ", "  "}

(***************************************************************************)
(* What the completion stream delivers, accumulated.                       *)
(***************************************************************************)
ToolCall(id, name, arguments) == [id |-> id, name |-> name, arguments |-> arguments]

\* acc.Choices is empty when the stream delivered no chunk with a choice
NoChoices == [choices |-> 0, content |-> "", toolCalls |-> NoCalls]
Accumulated(content, calls) == [choices |-> 1, content |-> content, toolCalls |-> calls]

\* argument documents: the text the model streamed for a call
ArgsObject == "{\"path\":\"x.txt\"}"
ArgsWithUid == "{\"uid\":\"evil\",\"path\":\"x.txt\"}"
ArgsEmptyObject == "{}"
ArgsNull == "null"
ArgsEmpty == ""
ArgsMalformed == "{\"path\":"
ArgsArray == "[1]"
ArgsString == "\"x.txt\""
ArgsNumber == "1"

\* a Go map[string]any: nil, or a map from keys to values
NilMap == [isNil |-> TRUE, map |-> <<>>]
GoMap(m) == [isNil |-> FALSE, map |-> m]

\* ParseArguments taking a JSON array for an empty argument map
ParseArguments_AcceptArray(text) ==
  CASE text = ArgsObject -> [err |-> FALSE, args |-> GoMap([path |-> "x.txt"])]
    [] text = ArgsWithUid ->
         [err |-> FALSE, args |-> GoMap([uid |-> "evil", path |-> "x.txt"])]
    [] text = ArgsEmptyObject -> [err |-> FALSE, args |-> GoMap(<<>>)]
    [] text = ArgsNull -> [err |-> FALSE, args |-> NilMap]
    [] text = ArgsArray -> [err |-> FALSE, args |-> GoMap(<<>>)]
    [] OTHER -> [err |-> TRUE, args |-> NilMap]

\* json.Unmarshal([]byte(toolCall.Function.Arguments), &args)
ParseArguments(text) ==
  CASE text = ArgsObject -> [err |-> FALSE, args |-> GoMap([path |-> "x.txt"])]
    [] text = ArgsWithUid ->
         [err |-> FALSE, args |-> GoMap([uid |-> "evil", path |-> "x.txt"])]
    [] text = ArgsEmptyObject -> [err |-> FALSE, args |-> GoMap(<<>>)]
    [] text = ArgsNull -> [err |-> FALSE, args |-> NilMap]
    [] OTHER -> [err |-> TRUE, args |-> NilMap]

(***************************************************************************)
(* CallTool.                                                               *)
(***************************************************************************)
userID == "user123"

\* InjectUid leaving in place a uid the model has supplied
InjectUid_KeepSupplied(arguments) ==
  IF userID # ""
  THEN LET m == arguments.map
       IN  GoMap([k \in (DOMAIN m) \cup {ReservedParam} |->
                    IF k \in DOMAIN m THEN m[k] ELSE userID])
  ELSE arguments

\* the block "Inject uid"
InjectUid(arguments) ==
  IF userID # ""
  THEN LET m == arguments.map
       IN  GoMap([k \in (DOMAIN m) \cup {ReservedParam} |->
                    IF k = ReservedParam THEN userID ELSE m[k]])
  ELSE arguments

\* what a session answers to an invoke
InvokeError == [err |-> TRUE, content |-> <<>>]
InvokeOk(content) == [err |-> FALSE, content |-> content]
InvokeOutcomes == {InvokeError, InvokeOk(<<>>), InvokeOk(<<"hello">>)}

\* values CallTool returns
NilResult == [kind |-> "nil", text |-> ""]
StringResult(text) == [kind |-> "string", text |-> text]
ContentResult(text) == [kind |-> "content", text |-> text]
NotFoundError(toolName) == [kind |-> "notfound", name |-> toolName]

\* err.Error() of the errors the agent makes
ErrorText(err) ==
  CASE err.kind = "notfound" ->
         "tool " \o err.name \o " not found in any connected server"
    [] err.kind = "stream" -> "stream error: " \o err.cause
    [] OTHER -> ""

\* Sprintf printing a content by its type and not by its text
Sprintf_TypeOnly(result) ==
  CASE result.kind = "string" -> result.text
    [] result.kind = "content" -> "&{}"
    [] OTHER -> "<nil>"

\* fmt.Sprintf("%v", result): a string prints as itself, a text content as
\* the struct that holds it
Sprintf(result) ==
  CASE result.kind = "string" -> result.text
    [] result.kind = "content" -> "&{" \o result.text \o "}"
    [] OTHER -> "<nil>"

\* the frame of a CallTool
NoCall ==
  [status |-> "none", toolName |-> "", arguments |-> NilMap, invoked |-> <<>>,
   result |-> NilResult, err |-> NoError]
Invoking(toolName, arguments, invoked) ==
  [status |-> "invoking", toolName |-> toolName, arguments |-> arguments,
   invoked |-> invoked, result |-> NilResult, err |-> NoError]
CallReturned(frame, result, err) ==
  [frame EXCEPT !.status = "returned", !.result = result, !.err = err]

\* entry of CallTool up to the first invoke; with no session the loop body
\* never runs and the call returns at once
CallToolEnter(toolName, arguments) ==
  LET frame == Invoking(toolName, InjectUid(arguments), <<>>)
  IN  IF servers = <<>>
      THEN CallReturned(frame, NilResult, NotFoundError(toolName))
      ELSE frame

\* the session whose invoke the frame waits for
InvokedSession(frame) == servers[Len(frame.invoked) + 1]

\* CallToolResume going on to the next session after a successful invoke
CallToolResume_NoStop(frame, outcome) ==
  LET logged == [frame EXCEPT !.invoked =
                   Append(@, [server |-> InvokedSession(frame),
                              name |-> frame.toolName,
                              arguments |-> frame.arguments,
                              outcome |-> outcome])]
  IN  IF Len(logged.invoked) < Len(servers)
      THEN logged
      ELSE IF ~outcome.err
           THEN IF Len(outcome.content) > 0
                THEN CallReturned(logged, ContentResult(outcome.content[1]), NoError)
                ELSE CallReturned(logged, StringResult("Tool executed successfully"), NoError)
           ELSE CallReturned(logged, NilResult, NotFoundError(frame.toolName))

\* CallToolResume giving up one session before the end of the registry
CallToolResume_SkipLast(frame, outcome) ==
  LET logged == [frame EXCEPT !.invoked =
                   Append(@, [server |-> InvokedSession(frame),
                              name |-> frame.toolName,
                              arguments |-> frame.arguments,
                              outcome |-> outcome])]
  IN  IF ~outcome.err
      THEN IF Len(outcome.content) > 0
           THEN CallReturned(logged, ContentResult(outcome.content[1]), NoError)
           ELSE CallReturned(logged, StringResult("Tool executed successfully"), NoError)
      ELSE IF Len(logged.invoked) + 1 < Len(servers)
           THEN logged
           ELSE CallReturned(logged, NilResult, NotFoundError(frame.toolName))

\* the loop of CallTool when the pending invoke returns outcome
CallToolResume(frame, outcome) ==
  LET logged == [frame EXCEPT !.invoked =
                   Append(@, [server |-> InvokedSession(frame),
                              name |-> frame.toolName,
                              arguments |-> frame.arguments,
                              outcome |-> outcome])]
  IN  IF ~outcome.err
      THEN IF Len(outcome.content) > 0
           THEN CallReturned(logged, ContentResult(outcome.content[1]), NoError)
           ELSE CallReturned(logged, StringResult("Tool executed successfully"), NoError)
      ELSE IF Len(logged.invoked) < Len(servers)
           THEN logged
           ELSE CallReturned(logged, NilResult, NotFoundError(frame.toolName))

(***************************************************************************)
(* ProcessUserInput.                                                       *)
(***************************************************************************)
\* ToolMessageOf correlating the message by the tool's name
ToolMessageOf_ByName(frame, id) ==
  LET result == IF frame.err # NoError
                THEN StringResult("Error: " \o ErrorText(frame.err))
                ELSE frame.result
  IN  ToolMessage(Sprintf(result), frame.toolName)

\* the tool message ProcessUserInput appends when CallTool has returned
ToolMessageOf(frame, id) ==
  LET result == IF frame.err # NoError
                THEN StringResult("Error: " \o ErrorText(frame.err))
                ELSE frame.result
  IN  ToolMessage(Sprintf(result), id)

\* CompletionRequest made without the catalog
CompletionRequest_NoCatalog(msgs) ==
  [messages |-> msgs, model |-> config.model, tools |-> <<>>,
   parallelToolCalls |-> FALSE]

\* CompletionRequest made without the last message of the conversation
CompletionRequest_Stale(msgs) ==
  [messages |-> SubSeq(msgs, 1, Len(msgs) - 1), model |-> config.model,
   tools |-> tools, parallelToolCalls |-> FALSE]

\* the parameters of NewStreaming
CompletionRequest(msgs) ==
  [messages |-> msgs, model |-> config.model, tools |-> tools,
   parallelToolCalls |-> FALSE]
NoRequest ==
  [messages |-> <<>>, model |-> "", tools |-> <<>>, parallelToolCalls |-> FALSE]

\* the options of the client NewSimpleAgent has made
ClientOptions == [apiKey |-> config.apiKey, baseURL |-> config.baseURL]

\* a returned call of the round: its position among the round's tool calls
Finished(i, frame) == [index |-> i, frame |-> frame]

RECURSIVE RunToolCalls_AnswerParseError(_, _, _, _)
\* RunToolCalls answering a call whose arguments do not parse with a tool
\* message that reports the error
RunToolCalls_AnswerParseError(msgs, calls, i, done) ==
  IF i > Len(calls)
  THEN [pc |-> "AwaitingCompletion", messages |-> msgs, callIdx |-> 0,
        call |-> NoCall, finished |-> done,
        request |-> CompletionRequest(msgs), stream |-> "open"]
  ELSE LET toolCall == calls[i]
       IN  IF toolCall.name # "" /\ toolCall.id # ""
           THEN LET parsed == ParseArguments(toolCall.arguments)
                IN  IF parsed.err
                    THEN RunToolCalls_AnswerParseError(
                           Append(msgs, ToolMessage("Error: invalid arguments",
                                                    toolCall.id)),
                           calls, i + 1, done)
                    ELSE LET entered == CallToolEnter(toolCall.name, parsed.args)
                         IN  IF entered.status = "returned"
                             THEN RunToolCalls_AnswerParseError(
                                    Append(msgs, ToolMessageOf(entered, toolCall.id)),
                                    calls, i + 1, Append(done, Finished(i, entered)))
                             ELSE [pc |-> "ExecutingCapabilities", messages |-> msgs,
                                   callIdx |-> i, call |-> entered, finished |-> done,
                                   request |-> request, stream |-> "ended"]
           ELSE RunToolCalls_AnswerParseError(msgs, calls, i + 1, done)

RECURSIVE RunToolCalls_TwoRounds(_, _, _, _)
\* RunToolCalls ending the turn after the second round of calls
RunToolCalls_TwoRounds(msgs, calls, i, done) ==
  IF i > Len(calls)
  THEN IF Cardinality({p \in DOMAIN msgs :
                         /\ msgs[p].toolCalls # <<>>
                         /\ \A q \in DOMAIN msgs : q > p => msgs[q].role # "user"}) >= 2
       THEN [pc |-> "Done", messages |-> msgs, callIdx |-> 0,
             call |-> NoCall, finished |-> done,
             request |-> request, stream |-> "ended"]
       ELSE [pc |-> "AwaitingCompletion", messages |-> msgs, callIdx |-> 0,
             call |-> NoCall, finished |-> done,
             request |-> CompletionRequest(msgs), stream |-> "open"]
  ELSE LET toolCall == calls[i]
       IN  IF toolCall.name # "" /\ toolCall.id # ""
           THEN LET parsed == ParseArguments(toolCall.arguments)
                IN  IF parsed.err
                    THEN RunToolCalls_TwoRounds(msgs, calls, i + 1, done)
                    ELSE LET entered == CallToolEnter(toolCall.name, parsed.args)
                         IN  IF entered.status = "returned"
                             THEN RunToolCalls_TwoRounds(
                                    Append(msgs, ToolMessageOf(entered, toolCall.id)),
                                    calls, i + 1, Append(done, Finished(i, entered)))
                             ELSE [pc |-> "ExecutingCapabilities", messages |-> msgs,
                                   callIdx |-> i, call |-> entered, finished |-> done,
                                   request |-> request, stream |-> "ended"]
           ELSE RunToolCalls_TwoRounds(msgs, calls, i + 1, done)

RECURSIVE RunToolCalls(_, _, _, _)
\* the loop over the tool calls of the round from position i, up to the
\* next point where the agent waits: a session's answer to an invoke, or,
\* after the last call, the stream of the next completion request
RunToolCalls(msgs, calls, i, done) ==
  IF i > Len(calls)
  THEN [pc |-> "AwaitingCompletion", messages |-> msgs, callIdx |-> 0,
        call |-> NoCall, finished |-> done,
        request |-> CompletionRequest(msgs), stream |-> "open"]
  ELSE LET toolCall == calls[i]
       IN  IF toolCall.name # "" /\ toolCall.id # ""
           THEN LET parsed == ParseArguments(toolCall.arguments)
                IN  IF parsed.err
                    THEN RunToolCalls(msgs, calls, i + 1, done)
                    ELSE LET entered == CallToolEnter(toolCall.name, parsed.args)
                         IN  IF entered.status = "returned"
                             THEN RunToolCalls(
                                    Append(msgs, ToolMessageOf(entered, toolCall.id)),
                                    calls, i + 1, Append(done, Finished(i, entered)))
                             ELSE [pc |-> "ExecutingCapabilities", messages |-> msgs,
                                   callIdx |-> i, call |-> entered, finished |-> done,
                                   request |-> request, stream |-> "ended"]
           ELSE RunToolCalls(msgs, calls, i + 1, done)

\* Resting with callers that do not wait for the turn to return
Resting_Always == TRUE

\* ProcessUserInput is not running
Resting == pc \in {"Idle", "Done", "Failed"}

\* the conversation has room for a round of n calls and a final answer
Room(n) == Len(messages) + n + 2 <= MaxMessages

\* InitConversation: whatever the conversation held, it now holds the
\* system message alone (a.systemPrompt is written here and read nowhere)
InitConversation(system) ==
  /\ Resting
  /\ systemPrompt' = system
  /\ messages' = <<SystemMessage(system)>>
  /\ ret' = Returned("InitConversation", NoError)
  /\ UNCHANGED <<pc, acc, callIdx, call, finished, request, stream>>
  /\ UNCHANGED catalogVars

\* ProcessUserInput up to the first completion request
ProcessUserInput(userInput) ==
  /\ Resting
  /\ IF IsBlank(userInput)
     THEN /\ ret' = Returned("ProcessUserInput", NoError)
          /\ pc' = "Idle"
          /\ UNCHANGED <<systemPrompt, messages, acc, callIdx, call, finished, request, stream>>
     ELSE /\ Room(0)
          /\ systemPrompt' = systemPrompt
          /\ messages' = Append(messages, UserMessage(userInput))
          /\ request' = CompletionRequest(messages')
          /\ stream' = "open"
          /\ pc' = "AwaitingCompletion"
          /\ acc' = NoChoices
          /\ callIdx' = 0
          /\ call' = NoCall
          /\ finished' = <<>>
          /\ ret' = Returned("ProcessUserInput", [kind |-> "running"])
  /\ UNCHANGED catalogVars

\* StreamErrorMessages taking back all that the turn has appended
StreamErrorMessages_UndoTurn(msgs, partial) ==
  SubSeq(msgs, 1,
         (CHOOSE p \in DOMAIN msgs :
            /\ msgs[p].role = "user"
            /\ \A q \in DOMAIN msgs : q > p => msgs[q].role # "user") - 1)

\* StreamErrorMessages taking back the last message of the conversation
StreamErrorMessages_Rollback(msgs, partial) == SubSeq(msgs, 1, Len(msgs) - 1)

\* StreamErrorMessages keeping what the accumulator holds
StreamErrorMessages_AppendPartial(msgs, partial) == Append(msgs, ToParam(partial))

\* the conversation when stream.Err() is non-nil: the function returns
\* before any append, and the accumulated chunks are dropped
StreamErrorMessages(msgs, partial) == msgs

\* StreamFailed dropping the cached catalog with the failed turn
StreamFailed_DropCatalog(partial) ==
  /\ pc = "AwaitingCompletion"
  /\ stream' = "failed"
  /\ pc' = "Failed"
  /\ systemPrompt' = systemPrompt
  /\ messages' = StreamErrorMessages(messages, partial)
  /\ acc' = NoChoices
  /\ finished' = <<>>
  /\ ret' = Returned("ProcessUserInput", [kind |-> "stream", cause |-> "EOF"])
  /\ tools' = <<>>
  /\ UNCHANGED <<callIdx, call, request>>
  /\ UNCHANGED <<servers, provided, listed>>

\* the stream ended with an error
StreamFailed(partial) ==
  /\ pc = "AwaitingCompletion"
  /\ stream' = "failed"
  /\ pc' = "Failed"
  /\ systemPrompt' = systemPrompt
  /\ messages' = StreamErrorMessages(messages, partial)
  /\ acc' = NoChoices
  /\ finished' = <<>>
  /\ ret' = Returned("ProcessUserInput",
                     [kind |-> "stream",
                      cause |-> IF ctxErr # NoCtxErr THEN ctxErr ELSE "EOF"])
  /\ UNCHANGED <<callIdx, call, request>>
  /\ UNCHANGED catalogVars

\* the stream ended without error and the accumulated message has tool calls
StreamToolCalls(m) ==
  /\ pc = "AwaitingCompletion"
  /\ m.choices > 0 /\ Len(m.toolCalls) > 0
  /\ Room(Len(m.toolCalls))
  /\ LET next == RunToolCalls(Append(messages, ToParam(m)), m.toolCalls, 1, <<>>)
     IN  /\ systemPrompt' = systemPrompt
         /\ messages' = next.messages
         /\ pc' = next.pc
         /\ callIdx' = next.callIdx
         /\ call' = next.call
         /\ finished' = next.finished
         /\ request' = next.request
         /\ stream' = next.stream
  /\ acc' = m
  /\ UNCHANGED ret
  /\ UNCHANGED catalogVars

\* StreamFinal asking the model again after an answer without calls
StreamFinal_AskAgain(m) ==
  /\ pc = "AwaitingCompletion"
  /\ ~(m.choices > 0 /\ Len(m.toolCalls) > 0)
  /\ systemPrompt' = systemPrompt
  /\ messages' = IF m.choices > 0 /\ Room(0) THEN Append(messages, ToParam(m)) ELSE messages
  /\ request' = CompletionRequest(messages')
  /\ stream' = "open"
  /\ pc' = "AwaitingCompletion"
  /\ acc' = NoChoices
  /\ finished' = <<>>
  /\ UNCHANGED <<callIdx, call, ret>>
  /\ UNCHANGED catalogVars

\* the stream ended without error and there is no tool call
StreamFinal(m) ==
  /\ pc = "AwaitingCompletion"
  /\ ~(m.choices > 0 /\ Len(m.toolCalls) > 0)
  /\ stream' = "ended"
  /\ systemPrompt' = systemPrompt
  /\ messages' = IF m.choices > 0 THEN Append(messages, ToParam(m)) ELSE messages
  /\ pc' = "Done"
  /\ acc' = NoChoices
  /\ finished' = <<>>
  /\ ret' = Returned("ProcessUserInput", NoError)
  /\ UNCHANGED <<callIdx, call, request>>
  /\ UNCHANGED catalogVars

\* InvokeReturns putting the tool message in front of the round's earlier ones
InvokeReturns_Prepend(outcome) ==
  /\ pc = "ExecutingCapabilities"
  /\ call.status = "invoking"
  /\ LET frame == CallToolResume(call, outcome)
     IN  IF frame.status = "invoking"
         THEN /\ call' = frame
              /\ UNCHANGED <<systemPrompt, messages, pc, callIdx, finished, request, stream>>
         ELSE LET start == Len(messages) - Len(finished)
                  next == RunToolCalls(
                            SubSeq(messages, 1, start)
                              \o <<ToolMessageOf(frame, acc.toolCalls[callIdx].id)>>
                              \o SubSeq(messages, start + 1, Len(messages)),
                            acc.toolCalls, callIdx + 1,
                            Append(finished, Finished(callIdx, frame)))
              IN  /\ systemPrompt' = systemPrompt
                  /\ messages' = next.messages
                  /\ pc' = next.pc
                  /\ callIdx' = next.callIdx
                  /\ call' = next.call
                  /\ finished' = next.finished
                  /\ request' = next.request
                  /\ stream' = next.stream
  /\ UNCHANGED <<acc, ret>>
  /\ UNCHANGED catalogVars

\* InvokeReturns ending the turn when CallTool returns an error
InvokeReturns_AbortOnError(outcome) ==
  /\ pc = "ExecutingCapabilities"
  /\ call.status = "invoking"
  /\ LET frame == CallToolResume(call, outcome)
     IN  IF frame.status = "invoking"
         THEN /\ call' = frame
              /\ UNCHANGED <<systemPrompt, messages, pc, callIdx, finished, request, stream, ret>>
         ELSE IF frame.err # NoError
         THEN /\ pc' = "Failed"
              /\ call' = NoCall
              /\ finished' = Append(finished, Finished(callIdx, frame))
              /\ ret' = Returned("ProcessUserInput", frame.err)
              /\ UNCHANGED <<systemPrompt, messages, callIdx, request, stream>>
         ELSE LET next == RunToolCalls(
                            Append(messages,
                                   ToolMessageOf(frame, acc.toolCalls[callIdx].id)),
                            acc.toolCalls, callIdx + 1,
                            Append(finished, Finished(callIdx, frame)))
              IN  /\ systemPrompt' = systemPrompt
                  /\ messages' = next.messages
                  /\ pc' = next.pc
                  /\ callIdx' = next.callIdx
                  /\ call' = next.call
                  /\ finished' = next.finished
                  /\ request' = next.request
                  /\ stream' = next.stream
                  /\ UNCHANGED ret
  /\ UNCHANGED acc
  /\ UNCHANGED catalogVars

\* the session invoked by CallTool answers
InvokeReturns(outcome) ==
  /\ pc = "ExecutingCapabilities"
  /\ call.status = "invoking"
  /\ LET frame == CallToolResume(call, outcome)
     IN  IF frame.status = "invoking"
         THEN /\ call' = frame
              /\ UNCHANGED <<systemPrompt, messages, pc, callIdx, finished, request, stream>>
         ELSE LET next == RunToolCalls(
                            Append(messages,
                                   ToolMessageOf(frame, acc.toolCalls[callIdx].id)),
                            acc.toolCalls, callIdx + 1,
                            Append(finished, Finished(callIdx, frame)))
              IN  /\ systemPrompt' = systemPrompt
                  /\ messages' = next.messages
                  /\ pc' = next.pc
                  /\ callIdx' = next.callIdx
                  /\ call' = next.call
                  /\ finished' = next.finished
                  /\ request' = next.request
                  /\ stream' = next.stream
  /\ UNCHANGED <<acc, ret>>
  /\ UNCHANGED catalogVars

(***************************************************************************)
(* Operations on the registry and the catalog.                             *)
(***************************************************************************)
Last(s) == s[Len(s)]

\* sessions are named in the order of their registration
NextNames(limit) == {n \in 1..limit : n = Len(servers) + 1}

\* AddMCPServer putting the new session in front of the registry
AddMCPServer_Prepend(limit, ToolLists) ==
  /\ Resting
  /\ \E name \in NextNames(limit), connected \in BOOLEAN, ts \in ToolLists :
       IF connected
       THEN /\ servers' = <<name>> \o servers
            /\ provided' = <<ts>> \o provided
            /\ ret' = Returned("AddMCPServer", NoError)
       ELSE /\ servers' = servers
            /\ provided' = provided
            /\ ret' = Returned("AddMCPServer", [kind |-> "connect", name |-> name])
  /\ UNCHANGED <<tools, listed>>
  /\ UNCHANGED turnVars

\* the provider the command starts exposes the tools ts
AddMCPServer(limit, ToolLists) ==
  /\ Resting
  /\ \E name \in NextNames(limit), connected \in BOOLEAN, ts \in ToolLists :
       IF connected
       THEN /\ servers' = Append(servers, name)
            /\ provided' = Append(provided, ts)
            /\ ret' = Returned("AddMCPServer", NoError)
       ELSE /\ servers' = servers
            /\ provided' = provided
            /\ ret' = Returned("AddMCPServer", [kind |-> "connect", name |-> name])
  /\ UNCHANGED <<tools, listed>>
  /\ UNCHANGED turnVars

\* RefreshedCatalog keeping the cached catalog when nothing was fetched
RefreshedCatalog_KeepWhenEmpty(cached, fetched) ==
  IF fetched = <<>> THEN cached ELSE fetched

\* a.tools = tools
RefreshedCatalog(cached, fetched) == fetched

\* the sessions in failing answer ListTools with an error
RefreshTools(Failures) ==
  /\ Resting
  /\ \E failing \in Failures :
       LET answers == [i \in 1..Len(servers) |->
                         IF i \in failing THEN ListError ELSE Listing(provided[i])]
           r == GetAllTools(answers)
       IN  /\ listed' = answers
           /\ IF r.err # NoError
              THEN /\ ret' = Returned("RefreshTools", r.err)
                   /\ tools' = tools
              ELSE /\ ret' = Returned("RefreshTools", NoError)
                   /\ tools' = RefreshedCatalog(tools, r.tools)
  /\ UNCHANGED <<servers, provided>>
  /\ UNCHANGED turnVars

\* the fields of a new agent
NewAgent ==
  /\ servers = <<>>
  /\ provided = <<>>
  /\ tools = <<>>
  /\ listed = <<>>
  /\ systemPrompt = ""
  /\ messages = <<>>
  /\ pc = "Idle"
  /\ acc = NoChoices
  /\ callIdx = 0
  /\ call = NoCall
  /\ finished = <<>>
  /\ request = NoRequest
  /\ stream = "none"
  /\ ret = Returned("NewSimpleAgent", NoError)

NewSimpleAgent == NewAgent /\ Embedded

(***************************************************************************)
(* Inputs of a turn.                                                       *)
(***************************************************************************)
UserInputs == {"", "  ", "read x.txt"}
Contents == {"", "done"}
CallNames == {"read_file"}
CallArguments == {ArgsObject, ArgsMalformed}

RECURSIVE Issued(_)
\* the number of call requests in the assistant messages of msgs
Issued(msgs) ==
  IF msgs = <<>> THEN 0 ELSE Len(Head(msgs).toolCalls) + Issued(Tail(msgs))

\* the completion service gives every call request an id of its own
CallId(k) == "call_" \o ToString(k)
FreshCalls(c) ==
  [j \in DOMAIN c |-> ToolCall(CallId(Issued(messages) + j), c[j][1], c[j][2])]
FreshCallLists ==
  {FreshCalls(c) : c \in UNION {[1..n -> CallNames \X CallArguments] : n \in 1..MaxCalls}}

WithCalls(lists) == {Accumulated("", l) : l \in lists}
WithoutCalls == {NoChoices} \cup {Accumulated(c, NoCalls) : c \in Contents}
Partials == {NoChoices, Accumulated("do", NoCalls)}
TurnToolLists == {<<SourceTool("read_file", ReadFileSchema)>>}

(***************************************************************************)
(* The agent: registry, catalog and turns.                                 *)
(***************************************************************************)
Init == NewSimpleAgent

\* main connects the sessions, then loads the catalog, then starts the chat
\* the caller's order: the conversation is initialized on the new agent,
\* then the servers are connected and the tools loaded, as main does;
\* a caller that initializes the conversation again goes on chatting
Starting == ret.op = "NewSimpleAgent"
Connecting == ret.op \in {"InitConversation", "AddMCPServer"} /\ listed = <<>>
Chatting ==
  \/ ret.op \in {"RefreshTools", "ProcessUserInput"}
  \/ ret.op = "InitConversation" /\ listed # <<>>

Connect == Connecting /\ AddMCPServer(MaxServers, TurnToolLists)
LoadTools == Connecting /\ RefreshTools({{}})
Utterance == Chatting /\ \E userInput \in UserInputs : ProcessUserInput(userInput)

Next ==
  \/ Starting /\ InitConversation(SystemPrompt) /\ UNCHANGED mainVars
  \/ Connect /\ UNCHANGED mainVars
  \/ LoadTools /\ UNCHANGED mainVars
  \/ Utterance /\ UNCHANGED mainVars
  \/ \E partial \in Partials : StreamFailed(partial) /\ UNCHANGED mainVars
  \/ \E m \in WithCalls(FreshCallLists) : StreamToolCalls(m) /\ UNCHANGED mainVars
  \/ \E m \in WithoutCalls : StreamFinal(m) /\ UNCHANGED mainVars
  \/ \E outcome \in InvokeOutcomes : InvokeReturns(outcome) /\ UNCHANGED mainVars

Spec == Init /\ [][Next]_vars

(***************************************************************************)
(* Turns in which the completion service chooses the call ids: an id is    *)
(* unique within its assistant message and may come back in a later one.   *)
(***************************************************************************)
IdServers == 1
CallIds == {"call_1", "call_2"}
IdCalls(ids, c) == [j \in DOMAIN c |-> ToolCall(ids[j], c[j][1], c[j][2])]
IdCallLists ==
  UNION {{IdCalls(ids, c) : ids \in {f \in [1..n -> CallIds] : Injective(f)},
                             c \in [1..n -> CallNames \X CallArguments]}
           : n \in 1..MaxCalls}

NextIds ==
  \/ Starting /\ InitConversation(SystemPrompt) /\ UNCHANGED mainVars
  \/ Connecting /\ AddMCPServer(IdServers, TurnToolLists) /\ UNCHANGED mainVars
  \/ LoadTools /\ UNCHANGED mainVars
  \/ Utterance /\ UNCHANGED mainVars
  \/ \E partial \in Partials : StreamFailed(partial) /\ UNCHANGED mainVars
  \/ \E m \in WithCalls(IdCallLists) : StreamToolCalls(m) /\ UNCHANGED mainVars
  \/ \E m \in WithoutCalls : StreamFinal(m) /\ UNCHANGED mainVars
  \/ \E outcome \in InvokeOutcomes : InvokeReturns(outcome) /\ UNCHANGED mainVars

SpecIds == Init /\ [][NextIds]_vars

(***************************************************************************)
(* A caller that initializes the conversation whenever no turn is running, *)
(* before the first turn or after any number of them; the model answers a  *)
(* turn with one call of read_file or with a text.                         *)
(***************************************************************************)
InitCallLists == {FreshCalls(<<<<"read_file", ArgsObject>>>>)}
Prompts == {SystemPrompt, "You are terse."}

NextInit ==
  \/ \E system \in Prompts : InitConversation(system) /\ UNCHANGED mainVars
  \/ Connecting /\ AddMCPServer(IdServers, TurnToolLists) /\ UNCHANGED mainVars
  \/ LoadTools /\ UNCHANGED mainVars
  \/ Utterance /\ UNCHANGED mainVars
  \/ StreamFailed(NoChoices) /\ UNCHANGED mainVars
  \/ \E m \in WithCalls(InitCallLists) : StreamToolCalls(m) /\ UNCHANGED mainVars
  \/ StreamFinal(Accumulated("done", NoCalls)) /\ UNCHANGED mainVars
  \/ \E outcome \in {InvokeError, InvokeOk(<<"hello">>)} :
       InvokeReturns(outcome) /\ UNCHANGED mainVars

SpecInit == Init /\ [][NextInit]_vars

(***************************************************************************)
(* Turns in which a call request may come without a name or without an id; *)
(* the conversation holds MaxCalls call requests at most.                  *)
(***************************************************************************)
AnyNames == CallNames \cup {""}
AnyCalls(c) ==
  [j \in DOMAIN c |->
     ToolCall(IF c[j][1] THEN CallId(Issued(messages) + j) ELSE "",
              c[j][2], c[j][3])]
AnyCallLists ==
  {AnyCalls(c) :
     c \in UNION {[1..n -> BOOLEAN \X AnyNames \X CallArguments] :
                    n \in 1..(MaxCalls - Issued(messages))}}

NextAny ==
  \/ Starting /\ InitConversation(SystemPrompt) /\ UNCHANGED mainVars
  \/ Connecting /\ AddMCPServer(IdServers, TurnToolLists) /\ UNCHANGED mainVars
  \/ LoadTools /\ UNCHANGED mainVars
  \/ Utterance /\ UNCHANGED mainVars
  \/ \E partial \in Partials : StreamFailed(partial) /\ UNCHANGED mainVars
  \/ \E m \in WithCalls(AnyCallLists) : StreamToolCalls(m) /\ UNCHANGED mainVars
  \/ \E m \in WithoutCalls : StreamFinal(m) /\ UNCHANGED mainVars
  \/ \E outcome \in InvokeOutcomes : InvokeReturns(outcome) /\ UNCHANGED mainVars

SpecAny == Init /\ [][NextAny]_vars

(***************************************************************************)
(* Normalization of one descriptor with any schema.                        *)
(***************************************************************************)
InitNormalize ==
  /\ servers = <<1>>
  /\ provided \in {<<ts>> : ts \in NormalizeToolLists}
  /\ tools = <<>>
  /\ listed = <<>>
  /\ systemPrompt = SystemPrompt
  /\ messages = <<SystemMessage(SystemPrompt)>>
  /\ pc = "Idle"
  /\ acc = NoChoices
  /\ callIdx = 0
  /\ call = NoCall
  /\ finished = <<>>
  /\ request = NoRequest
  /\ stream = "none"
  /\ ret = Returned("AddMCPServer", NoError)
  /\ Embedded

NextNormalize == RefreshTools({{}, {1}}) /\ UNCHANGED mainVars

SpecNormalize == InitNormalize /\ [][NextNormalize]_vars

(***************************************************************************)
(* Aggregation of the catalog over several sessions.                       *)
(***************************************************************************)
NextCatalog ==
  \/ AddMCPServer(CatalogServers, CatalogToolLists) /\ UNCHANGED mainVars
  \/ RefreshTools(SUBSET (1..Len(servers))) /\ UNCHANGED mainVars

SpecCatalog == NewSimpleAgent /\ [][NextCatalog]_vars

(***************************************************************************)
(* Turns whose streams end without error and whose invocations return: a   *)
(* session answers every invocation, and the model does not ask for calls  *)
(* for ever.                                                               *)
(***************************************************************************)
Answers == \E m \in WithoutCalls : StreamFinal(m) /\ UNCHANGED mainVars
Returns == \E outcome \in InvokeOutcomes : InvokeReturns(outcome) /\ UNCHANGED mainVars

NextLive ==
  \/ Starting /\ InitConversation(SystemPrompt) /\ UNCHANGED mainVars
  \/ Connecting /\ AddMCPServer(IdServers, TurnToolLists) /\ UNCHANGED mainVars
  \/ LoadTools /\ UNCHANGED mainVars
  \/ Utterance /\ UNCHANGED mainVars
  \/ \E m \in WithCalls(FreshCallLists) : StreamToolCalls(m) /\ UNCHANGED mainVars
  \/ Answers
  \/ Returns

SpecLive == Init /\ [][NextLive]_vars /\ WF_vars(Returns) /\ SF_vars(Answers)

(***************************************************************************)
(* Turns under a context the caller may cancel or that has a deadline.     *)
(* ProcessUserInput and CallTool hand a.ctx to NewStreaming and to         *)
(* session.CallTool and never read it themselves: a stream ends with an    *)
(* error, which is the context's when the context is done, or without one  *)
(* when its chunks were all read; an invoke in flight returns the          *)
(* context's error, or the answer of the session when that one arrived     *)
(* first.                                                                  *)
(***************************************************************************)
\* session.CallTool(a.ctx, params) returning the error of the context
InvokeCtxError(cause) == [err |-> TRUE, content |-> <<>>, cause |-> cause]
CtxOutcomes ==
  IF ctxErr = NoCtxErr THEN InvokeOutcomes
  ELSE InvokeOutcomes \cup {InvokeCtxError(ctxErr)}

\* the caller cancels the context, or its deadline passes, while
\* ProcessUserInput waits for a stream or for a session
Cancel(cause) ==
  /\ pc \in {"AwaitingCompletion", "ExecutingCapabilities"}
  /\ ctxErr = NoCtxErr
  /\ ctxErr' = cause
  /\ UNCHANGED <<stage, closed, config, menu, configFile, tree, ret>>
  /\ UNCHANGED catalogVars
  /\ UNCHANGED turnVars

\* call requests whose arguments all parse
ParsedCallLists ==
  {FreshCalls(c) : c \in UNION {[1..n -> CallNames \X {ArgsObject}] : n \in 1..MaxCalls}}

StreamEnds ==
  \/ \E partial \in Partials : StreamFailed(partial) /\ UNCHANGED mainVars
  \/ \E m \in WithCalls(ParsedCallLists) : StreamToolCalls(m) /\ UNCHANGED mainVars
  \/ \E m \in WithoutCalls : StreamFinal(m) /\ UNCHANGED mainVars
InvokeEnds == \E outcome \in CtxOutcomes : InvokeReturns(outcome) /\ UNCHANGED mainVars

NextCancel ==
  \/ Starting /\ InitConversation(SystemPrompt) /\ UNCHANGED mainVars
  \/ Connecting /\ AddMCPServer(IdServers, TurnToolLists) /\ UNCHANGED mainVars
  \/ LoadTools /\ UNCHANGED mainVars
  \/ Utterance /\ UNCHANGED mainVars
  \/ \E cause \in {Canceled, DeadlineExceeded} : Cancel(cause)
  \/ StreamEnds
  \/ InvokeEnds

SpecCancel == Init /\ [][NextCancel]_vars /\ WF_vars(StreamEnds) /\ WF_vars(InvokeEnds)

(***************************************************************************)
(* Turns whose call requests come with any arguments that parse: an        *)
(* object, an object with a uid of the model's choosing, an empty object,  *)
(* and null, which leaves the argument map nil. The conversation holds     *)
(* MaxCalls call requests at most.                                         *)
(***************************************************************************)
ParsedArguments == {ArgsObject, ArgsWithUid, ArgsEmptyObject, ArgsNull}
ArgsCallLists ==
  {FreshCalls(c) :
     c \in UNION {[1..n -> CallNames \X ParsedArguments] :
                    n \in 1..(MaxCalls - Issued(messages))}}

NextArgs ==
  \/ Starting /\ InitConversation(SystemPrompt) /\ UNCHANGED mainVars
  \/ Connecting /\ AddMCPServer(CatalogServers, TurnToolLists) /\ UNCHANGED mainVars
  \/ LoadTools /\ UNCHANGED mainVars
  \/ Utterance /\ UNCHANGED mainVars
  \/ \E partial \in Partials : StreamFailed(partial) /\ UNCHANGED mainVars
  \/ \E m \in WithCalls(ArgsCallLists) : StreamToolCalls(m) /\ UNCHANGED mainVars
  \/ \E m \in WithoutCalls : StreamFinal(m) /\ UNCHANGED mainVars
  \/ \E outcome \in InvokeOutcomes : InvokeReturns(outcome) /\ UNCHANGED mainVars

SpecArgs == Init /\ [][NextArgs]_vars

(***************************************************************************)
(* main: it starts the conversation, connects the servers of the           *)
(* installation directory, loads the catalog, runs the chat loop and       *)
(* closes the sessions.  stage is main's position: "start", "connect",     *)
(* "chat" (ChatLoop reads a line), "turn" (ChatLoop is inside              *)
(* ProcessUserInput), "closing" (ChatLoop returned nil), "exited" (main    *)
(* returned) and "exit1" (os.Exit(1), log.Fatalf).                         *)
(***************************************************************************)
MainInit ==
  /\ NewAgent
  /\ stage = "start"
  /\ closed = <<>>
  /\ ctxErr = NoCtxErr
  /\ config = NoConfig
  /\ menu = NoConfig
  /\ configFile = NoFile
  /\ tree = Dir(<<>>)

\* the lines ChatLoop reads; none has blanks around its text
Lines == {"", "  ", "read x.txt", "exit", "QUIT", "Bye", "/settings"}

\* strings.TrimSpace and strings.ToLower on these lines
TrimSpace(text) ==
  CASE IsBlank(text) -> ""
    [] text = " Exit " -> "Exit"
    [] OTHER -> text
ToLower(text) ==
  CASE text = "QUIT" -> "quit"
    [] text = "Exit" -> "exit"
    [] text = "Bye" -> "bye"
    [] text = "/Settings" -> "/settings"
    [] OTHER -> text

\* AfterTurn making ChatLoop return the error of the turn
AfterTurn_ReturnOnError(err) == IF err = NoError THEN "chat" ELSE "exit1"

\* ChatLoop after ProcessUserInput returned err: the error is printed and
\* the loop reads the next line
AfterTurn(err) == "chat"

MainInitConversation ==
  /\ stage = "start"
  /\ InitConversation(SystemPrompt)
  /\ stage' = "connect"
  /\ UNCHANGED <<closed, ctxErr, config, menu, configFile, tree>>

MainAddMCPServer ==
  /\ stage = "connect"
  /\ AddMCPServer(CatalogServers, TurnToolLists)
  /\ UNCHANGED mainVars

\* connectedServers == 0
MainNoServers ==
  /\ stage = "connect"
  /\ Len(servers) = 0
  /\ stage' = "exit1"
  /\ UNCHANGED <<closed, ctxErr, config, menu, configFile, tree, ret>>
  /\ UNCHANGED catalogVars
  /\ UNCHANGED turnVars

MainRefreshTools ==
  /\ stage = "connect"
  /\ Len(servers) > 0
  /\ RefreshTools(SUBSET (1..Len(servers)))
  /\ stage' = IF ret'.err = NoError THEN "chat" ELSE "exit1"
  /\ UNCHANGED <<closed, ctxErr, config, menu, configFile, tree>>

\* reader.ReadString fails: ChatLoop returns the error and main calls
\* log.Fatalf
ReadError ==
  /\ stage = "chat"
  /\ stage' = "exit1"
  /\ ret' = Returned("ChatLoop", [kind |-> "read", cause |-> "EOF"])
  /\ UNCHANGED <<closed, ctxErr, config, menu, configFile, tree>>
  /\ UNCHANGED catalogVars
  /\ UNCHANGED turnVars

\* strings.HasPrefix(text, "@"), for the lines the user types
HasPrefixAt(text) == text \in {"@"}

\* handleFileBrowserCommand: the browser fails, the user cancels with q, or
\* the user selects a file, whose absolute path comes back
BrowserError == [path |-> "", err |-> TRUE]
BrowserCancelled == [path |-> "", err |-> FALSE]
BrowserSelected(path) == [path |-> path, err |-> FALSE]
handleFileBrowserCommand ==
  {BrowserError, BrowserCancelled, BrowserSelected("/w/x.txt")}

\* the chat loop passing the line with the @ on when the selection was
\* cancelled
Continues_PassesCancelled(browse) == browse.err

\* the @ line is dropped: the browser failed or nothing was selected
Continues(browse) == browse.err \/ browse.path = ""

\* strings.Replace(text, "@", fmt.Sprintf("`%s`", selectedPath), 1); the
\* quote ' stands for the backquote
InsertPath(text, path) ==
  IF text = "@" THEN "'" \o path \o "'" ELSE text

\* one iteration of ChatLoop up to the call of ProcessUserInput or of
\* showSettingsMenu
ChatLoop(line) ==
  /\ stage = "chat"
  /\ LET text == TrimSpace(line)
         lower == ToLower(text)
     IN  CASE text = "" -> UNCHANGED vars
           [] lower \in {"exit", "quit", "bye"} ->
                /\ stage' = "closing"
                /\ ret' = Returned("ChatLoop", NoError)
                /\ UNCHANGED <<closed, ctxErr, config, menu, configFile, tree>>
                /\ UNCHANGED catalogVars
                /\ UNCHANGED turnVars
           [] lower = "/settings" ->
                /\ stage' = "settings"
                /\ UNCHANGED <<closed, ctxErr, config, menu, configFile, tree, ret>>
                /\ UNCHANGED catalogVars
                /\ UNCHANGED turnVars
           [] HasPrefixAt(text) ->
                \E browse \in handleFileBrowserCommand :
                  IF Continues(browse)
                  THEN UNCHANGED vars
                  ELSE /\ ProcessUserInput(InsertPath(text, browse.path))
                       /\ stage' = "turn"
                       /\ UNCHANGED <<closed, ctxErr, config, menu, configFile, tree>>
           [] OTHER ->
                /\ ProcessUserInput(text)
                /\ stage' = "turn"
                /\ UNCHANGED <<closed, ctxErr, config, menu, configFile, tree>>

\* one round of showSettingsMenu: the read fails and ChatLoop prints the
\* error, 0 goes back to the chat, 4 opens the MCP server settings, 1 to 3
\* open the menus of colours, display and chat behaviour, which change
\* none of the fields followed here, and any other input is asked again;
\* 5 is showConfigurationSettings
showSettingsMenu(input, eof) ==
  /\ stage = "settings"
  /\ eof \/ input # "5"
  /\ stage' = IF eof \/ input = "0" THEN "chat"
              ELSE IF input = "4" THEN "mcp"
              ELSE stage
  /\ UNCHANGED <<closed, ctxErr, config, menu, configFile, tree, ret>>
  /\ UNCHANGED catalogVars
  /\ UNCHANGED turnVars

\* one round of showMCPServerSettings: the read fails or the input is 0
\* and the menu returns; the input names a server and the action 2
\* refreshes the tools of all servers, of which those in failing do not
\* answer; any other input changes nothing
showMCPServerSettings(input, actionInput, eof, failing) ==
  /\ stage = "mcp"
  /\ IF eof \/ input = 0
     THEN /\ stage' = "settings"
          /\ UNCHANGED ret
          /\ UNCHANGED catalogVars
          /\ UNCHANGED turnVars
     ELSE IF input \in 1..Len(servers) /\ actionInput = "2"
     THEN /\ RefreshTools({failing})
          /\ stage' = stage
     ELSE UNCHANGED <<stage, ret, servers, provided, tools, listed, systemPrompt, messages, pc, acc,
                      callIdx, call, finished, request, stream>>
  /\ UNCHANGED <<closed, ctxErr, config, menu, configFile, tree>>

\* ProcessUserInput returns to ChatLoop
TurnReturns ==
  /\ stage = "turn"
  /\ Resting
  /\ stage' = AfterTurn(ret.err)
  /\ UNCHANGED <<closed, ctxErr, config, menu, configFile, tree, ret>>
  /\ UNCHANGED catalogVars
  /\ UNCHANGED turnVars

\* the steps of ProcessUserInput
TurnStep ==
  /\ stage = "turn"
  /\ \/ StreamFailed(NoChoices)
     \/ \E m \in WithCalls(ParsedCallLists) : StreamToolCalls(m)
     \/ \E m \in WithoutCalls : StreamFinal(m)
     \/ \E outcome \in {InvokeError, InvokeOk(<<"hello">>)} : InvokeReturns(outcome)
  /\ UNCHANGED mainVars

\* agent.Close() and the return of main
Close ==
  /\ stage = "closing"
  /\ closed' = servers
  /\ stage' = "exited"
  /\ ret' = Returned("Close", NoError)
  /\ UNCHANGED <<ctxErr, config, menu, configFile, tree>>
  /\ UNCHANGED catalogVars
  /\ UNCHANGED turnVars

NextMain ==
  \/ MainInitConversation
  \/ MainAddMCPServer
  \/ MainNoServers
  \/ MainRefreshTools
  \/ ReadError
  \/ \E line \in Lines : ChatLoop(line)
  \/ \E input \in {"0", "1", "4"} : showSettingsMenu(input, FALSE)
  \/ showSettingsMenu("", TRUE)
  \/ \E input \in {0, 1} : showMCPServerSettings(input, "1", FALSE, {})
  \/ showMCPServerSettings(0, "", TRUE, {})
  \/ \E failing \in SUBSET (1..Len(servers)) :
       showMCPServerSettings(Len(servers), "2", FALSE, failing)
  \/ TurnStep
  \/ TurnReturns
  \/ Close

SpecMain == MainInit /\ [][NextMain]_vars /\ WF_vars(TurnReturns)

(***************************************************************************)
(* The configuration: getConfiguration at startup, the configuration menu  *)
(* of the settings, and the file ~/.open-coder/config that outlives the    *)
(* process.  stage is "boot" before getConfiguration, "start" after it,    *)
(* "settings" inside showSettingsMenu, "menu" inside                       *)
(* showConfigurationSettings, and "exit1" after log.Fatalf.                *)
(***************************************************************************)
\* a Config, what the user types at the prompts (the API key may be left
\* empty), and the values of OPENAI_API_KEY, OPENAI_BASE_URL, OPENAI_MODEL
Config(apiKey, baseURL, model) == [apiKey |-> apiKey, baseURL |-> baseURL, model |-> model]
Typed == {Config("sk-1", "http://u1", "m1"), Config("", "http://u1", "m1")}
Environments ==
  {NoConfig, Config("", "", "m-env"), Config("sk-env", "http://env", "m-env")}
ConfigFields == {"apiKey", "baseURL", "model"}

\* the file: absent, not JSON, or the JSON of a Config
Garbage == [kind |-> "garbage"]
FileOf(c) == [kind |-> "file", config |-> c]

loadConfig(file) ==
  CASE file.kind = "absent" -> [err |-> [kind |-> "notfound"], config |-> NoConfig]
    [] file.kind = "garbage" -> [err |-> [kind |-> "parse"], config |-> NoConfig]
    [] OTHER -> [err |-> NoError, config |-> file.config]

\* saveConfig: the file after the call and the error; when the directory
\* or the file cannot be written the file stays as it was
saveConfig(file, c, writable) ==
  IF writable
  THEN [err |-> NoError, file |-> FileOf(c)]
  ELSE [err |-> [kind |-> "write"], file |-> file]

\* os.Remove(configPath)
Remove(file, removable) == IF removable THEN NoFile ELSE file

ConfigInit ==
  /\ NewAgent
  /\ stage = "boot"
  /\ closed = <<>>
  /\ ctxErr = NoCtxErr
  /\ config = NoConfig
  /\ menu = NoConfig
  /\ configFile \in {NoFile, Garbage, FileOf(Config("sk-1", "http://u1", "m1"))}
  /\ tree = Dir(<<>>)

\* getConfiguration in an environment env; typed is what the user answers
\* to the prompts, eof says that standard input has ended
getConfiguration(env, typed, eof, writable) ==
  /\ stage = "boot"
  /\ LET loaded == loadConfig(configFile)
         merged(base) == [f \in ConfigFields |-> IF env[f] # "" THEN env[f] ELSE base[f]]
     IN  IF \A f \in ConfigFields : env[f] # ""
         THEN /\ config' = env
              /\ configFile' = configFile
              /\ stage' = "start"
              /\ ret' = [op |-> "getConfiguration", err |-> NoError, source |-> "env"]
         ELSE IF loaded.err = NoError
         THEN /\ config' = merged(loaded.config)
              /\ configFile' = configFile
              /\ stage' = "start"
              /\ ret' = [op |-> "getConfiguration", err |-> NoError, source |-> "file"]
         ELSE IF eof
         THEN /\ config' = config
              /\ configFile' = configFile
              /\ stage' = "exit1"
              /\ ret' = [op |-> "getConfiguration", err |-> [kind |-> "read"],
                         source |-> "prompt"]
         ELSE /\ config' = merged(typed)
              /\ configFile' = saveConfig(configFile, config', writable).file
              /\ stage' = "start"
              /\ ret' = [op |-> "getConfiguration", err |-> NoError, source |-> "prompt"]
  /\ UNCHANGED <<closed, ctxErr, menu, tree>>
  /\ UNCHANGED catalogVars
  /\ UNCHANGED turnVars

\* showConfigurationSettings up to its menu, entered with 5 from
\* showSettingsMenu
showConfigurationSettings ==
  /\ stage = "settings"
  /\ LET loaded == loadConfig(configFile)
     IN  menu' = IF loaded.err = NoError THEN loaded.config ELSE config
  /\ stage' = "menu"
  /\ ret' = [op |-> "showConfigurationSettings", err |-> NoError, choice |-> "",
             changed |-> FALSE, confirmed |-> FALSE, removed |-> FALSE]
  /\ UNCHANGED <<closed, ctxErr, config, configFile, tree>>
  /\ UNCHANGED catalogVars
  /\ UNCHANGED turnVars

\* the choices of the configuration menu and the field each of 1..3 sets
Choices == {"0", "1", "2", "3", "4", "9"}
FieldOf(choice) ==
  CASE choice = "1" -> "apiKey"
    [] choice = "2" -> "baseURL"
    [] OTHER -> "model"
Confirmations == {"y", "n"}
NewValues == {"", "new"}
MenuAnswers(choice) ==
  CASE choice = "4" -> Confirmations
    [] choice \in {"1", "2", "3"} -> NewValues
    [] OTHER -> {""}

\* one round of the menu: the choice, the answer to its question, and
\* whether the file can be removed and written; with 0 the menu returns to
\* showSettingsMenu
MenuRound(choice, answer, removable, writable) ==
  /\ stage = "menu"
  /\ CASE choice = "0" ->
            /\ stage' = "settings"
            /\ UNCHANGED <<menu, configFile>>
            /\ ret' = [ret EXCEPT !.choice = choice, !.changed = FALSE,
                                  !.confirmed = FALSE, !.removed = FALSE]
       [] choice \in {"1", "2", "3"} ->
            /\ menu' = IF answer # "" THEN [menu EXCEPT ![FieldOf(choice)] = answer]
                       ELSE menu
            /\ configFile' = saveConfig(configFile, menu', writable).file
            /\ stage' = "menu"
            /\ ret' = [ret EXCEPT !.choice = choice, !.changed = answer # "",
                                  !.confirmed = FALSE, !.removed = FALSE,
                                  !.err = saveConfig(configFile, menu', writable).err]
       [] choice = "4" ->
            LET confirmed == answer = "y"
                afterRemove == IF confirmed THEN Remove(configFile, removable)
                               ELSE configFile
            IN  /\ menu' = menu
                /\ configFile' = saveConfig(afterRemove, menu, writable).file
                /\ stage' = "menu"
                /\ ret' = [ret EXCEPT !.choice = choice, !.changed = FALSE,
                                      !.confirmed = confirmed,
                                      !.removed = confirmed /\ afterRemove = NoFile,
                                      !.err = saveConfig(afterRemove, menu, writable).err]
       [] OTHER -> UNCHANGED <<stage, menu, configFile, ret>>
  /\ UNCHANGED <<closed, ctxErr, config, tree>>
  /\ UNCHANGED catalogVars
  /\ UNCHANGED turnVars

\* a read of the menu fails: showConfigurationSettings returns the error
\* to showSettingsMenu, which prints it
MenuReadError ==
  /\ stage = "menu"
  /\ stage' = "settings"
  /\ ret' = [ret EXCEPT !.err = [kind |-> "read", cause |-> "EOF"], !.choice = "",
                        !.changed = FALSE, !.confirmed = FALSE, !.removed = FALSE]
  /\ UNCHANGED <<closed, ctxErr, config, menu, configFile, tree>>
  /\ UNCHANGED catalogVars
  /\ UNCHANGED turnVars

\* the process has ended and the program is started again: a new agent,
\* and the file as the last process left it
Restart ==
  /\ stage \in {"exit1", "exited"}
  /\ stage' = "boot"
  /\ config' = NoConfig
  /\ menu' = NoConfig
  /\ servers' = <<>>
  /\ provided' = <<>>
  /\ tools' = <<>>
  /\ listed' = <<>>
  /\ systemPrompt' = ""
  /\ messages' = <<>>
  /\ pc' = "Idle"
  /\ acc' = NoChoices
  /\ callIdx' = 0
  /\ call' = NoCall
  /\ finished' = <<>>
  /\ request' = NoRequest
  /\ stream' = "none"
  /\ closed' = <<>>
  /\ ret' = Returned("NewSimpleAgent", NoError)
  /\ UNCHANGED <<ctxErr, configFile, tree>>

NextConfig ==
  \/ \E env \in Environments, typed \in Typed, eof \in BOOLEAN, writable \in BOOLEAN :
       getConfiguration(env, typed, eof, writable)
  \/ MainInitConversation
  \/ MainAddMCPServer
  \/ MainNoServers
  \/ MainRefreshTools
  \/ ReadError
  \/ \E line \in {"/settings", "exit"} : ChatLoop(line)
  \/ showSettingsMenu("0", FALSE)
  \/ showConfigurationSettings
  \/ \E choice \in Choices :
       \E answer \in MenuAnswers(choice), removable \in BOOLEAN, writable \in BOOLEAN :
         MenuRound(choice, answer, removable, writable)
  \/ MenuReadError
  \/ Close
  \/ Restart

SpecConfig == ConfigInit /\ [][NextConfig]_vars

(***************************************************************************)
(* The chat loop with the file browser and the settings: the user also     *)
(* types @ lines and walks through the menus, and the model answers a turn *)
(* with one call of read_file or with a text.                              *)
(***************************************************************************)
ChatLines ==
  {"", "  ", "read x.txt", "exit", "quit", "bye", "QUIT", "Bye", " Exit ",
   "/settings", "/Settings", "@"}
ChatCallLists == {FreshCalls(<<<<"read_file", ArgsObject>>>>)}

ChatTurnStep ==
  /\ stage = "turn"
  /\ \/ StreamFailed(NoChoices)
     \/ \E m \in WithCalls(ChatCallLists) : StreamToolCalls(m)
     \/ StreamFinal(Accumulated("done", NoCalls))
     \/ InvokeReturns(InvokeOk(<<"hello">>))
  /\ UNCHANGED mainVars

\* main connects the servers of the installation directory, IdServers here
ChatAddMCPServer ==
  /\ stage = "connect"
  /\ AddMCPServer(IdServers, TurnToolLists)
  /\ UNCHANGED mainVars

NextChat ==
  \/ MainInitConversation
  \/ ChatAddMCPServer
  \/ MainNoServers
  \/ MainRefreshTools
  \/ ReadError
  \/ \E line \in ChatLines : ChatLoop(line)
  \/ \E input \in {"0", "4"} : showSettingsMenu(input, FALSE)
  \/ showSettingsMenu("", TRUE)
  \/ showMCPServerSettings(0, "", FALSE, {})
  \/ \E failing \in SUBSET (1..Len(servers)) :
       showMCPServerSettings(Len(servers), "2", FALSE, failing)
  \/ showConfigurationSettings
  \/ \E choice \in {"0", "1"} : MenuRound(choice, "new", TRUE, TRUE)
  \/ ChatTurnStep
  \/ TurnReturns
  \/ Close

SpecChat == MainInit /\ [][NextChat]_vars

(***************************************************************************)
(* The file-access server: delete_file on a working directory whose        *)
(* entries are named a and b, nested MaxDepth deep.                        *)
(***************************************************************************)
MaxDepth == 2
NameOrder == <<"a", "b">>
EntryNames == {NameOrder[i] : i \in DOMAIN NameOrder}

RECURSIVE Trees(_)
\* the files and directories of depth d at most
Trees(d) ==
  IF d = 0 THEN {File, Dir(<<>>)}
  ELSE {File} \cup
       {Dir(e) : e \in UNION {[S -> Trees(d - 1)] : S \in SUBSET EntryNames}}

\* the paths a request names: "" and the names of entries, one per level
RECURSIVE PathsOf(_)
PathsOf(d) ==
  IF d = 0 THEN {<<>>}
  ELSE PathsOf(d - 1) \cup
       {Append(p, n) : p \in {q \in PathsOf(d - 1) : Len(q) = d - 1}, n \in EntryNames}

RECURSIVE Lookup(_, _)
\* os.Stat, os.Lstat: the entry at path below the directory t; a path
\* with no entry fails with ENOENT, a path through a file with ENOTDIR
Lookup(t, path) ==
  IF path = <<>> THEN t
  ELSE IF t.kind # "dir" THEN NotDir
  ELSE IF Head(path) \in DOMAIN t.entries
       THEN Lookup(t.entries[Head(path)], Tail(path))
       ELSE NoEntry

RECURSIVE Unlink(_, _)
\* the directory t without the entry at path
Unlink(t, path) ==
  IF Len(path) = 1
  THEN Dir([n \in (DOMAIN t.entries) \ {Head(path)} |-> t.entries[n]])
  ELSE Dir([t.entries EXCEPT ![Head(path)] = Unlink(@, Tail(path))])

\* os.Remove(path): a directory is removed only when it is empty
OsRemove(t, path) ==
  LET entry == Lookup(t, path)
  IN  IF entry.kind \in {"none", "notdir"} \/
         (entry.kind = "dir" /\ DOMAIN entry.entries # {})
      THEN [err |-> TRUE, tree |-> t]
      ELSE [err |-> FALSE, tree |-> Unlink(t, path)]

\* readDirNames: the names of a directory in lexical order
ReadDirNames(entry) == SelectSeq(NameOrder, LAMBDA n : n \in DOMAIN entry.entries)

\* the function deleteFileHandler gives to filepath.Walk
WalkFn(w, root, path) ==
  LET removed == OsRemove(w.tree, path)
  IN  IF removed.err
      THEN [w EXCEPT !.err = TRUE]
      ELSE [w EXCEPT !.tree = removed.tree,
                     !.deleted = Append(@, SubSeq(path, Len(root) + 1, Len(path)))]

RECURSIVE Walk(_, _, _)
RECURSIVE WalkNames(_, _, _, _)
\* filepath.Walk's walk: the function is called on a directory before
\* the entries the directory had are visited
Walk(w, root, path) ==
  LET entry == Lookup(w.tree, path)
  IN  IF entry.kind # "dir"
      THEN WalkFn(w, root, path)
      ELSE LET names == ReadDirNames(entry)
               after == WalkFn(w, root, path)
           IN  IF after.err THEN after ELSE WalkNames(after, root, path, names)

WalkNames(w, root, path, names) ==
  IF names = <<>> THEN w
  ELSE LET filename == Append(path, Head(names))
       IN  IF Lookup(w.tree, filename).kind \in {"none", "notdir"}
           THEN [w EXCEPT !.err = TRUE]
           ELSE LET after == Walk(w, root, filename)
                IN  IF after.err THEN after
                    ELSE WalkNames(after, root, path, Tail(names))

\* the result of a tool: an error text, or the list of the deleted paths
ToolError(text) == [isError |-> TRUE, text |-> text, deleted |-> <<>>]
ToolText(deleted) ==
  [isError |-> FALSE, text |-> "Successfully deleted", deleted |-> deleted]

\* the handler dereferenced a nil pointer: the server, built without
\* server.WithRecovery, ends and the call has no result
Panicked == [kind |-> "panic"]

deleteFileHandler(path, recursive) ==
  /\ stage = "tool"
  /\ LET info == Lookup(tree, path)
         done(result, t) ==
           /\ tree' = t
           /\ stage' = IF result = Panicked THEN "crashed" ELSE stage
           /\ ret' = [op |-> "delete_file", path |-> path, recursive |-> recursive,
                      wasDir |-> path # <<>> /\ info.kind = "dir", result |-> result]
     IN  IF path = <<>>
         THEN done(ToolError("path parameter is required"), tree)
         ELSE IF info.kind = "none"
         THEN done(ToolError("Path does not exist"), tree)
         ELSE IF info.kind = "notdir"
         THEN done(Panicked, tree)
         ELSE IF info.kind = "dir" /\ ~recursive
         THEN done(ToolError("Cannot delete directory without recursive=true"), tree)
         ELSE IF recursive /\ info.kind = "dir"
         THEN LET w == Walk([tree |-> tree, err |-> FALSE, deleted |-> <<>>], path, path)
              IN  IF w.err
                  THEN done(ToolError("Failed to delete directory recursively"), w.tree)
                  ELSE done(ToolText(w.deleted), w.tree)
         ELSE LET removed == OsRemove(tree, path)
              IN  IF removed.err
                  THEN done(ToolError("Failed to delete"), tree)
                  ELSE done(ToolText(<<path>>), removed.tree)
  /\ UNCHANGED <<closed, ctxErr, config, menu, configFile>>
  /\ UNCHANGED catalogVars
  /\ UNCHANGED turnVars

RECURSIVE MkdirAll(_, _)
\* os.MkdirAll(dir): the directories of the path that are missing are
\* made; a file on the path is an error
MkdirAll(t, dir) ==
  IF t.kind # "dir" THEN [err |-> TRUE, tree |-> t]
  ELSE IF dir = <<>> THEN [err |-> FALSE, tree |-> t]
  ELSE LET below == IF Head(dir) \in DOMAIN t.entries
                    THEN t.entries[Head(dir)] ELSE Dir(<<>>)
           made == MkdirAll(below, Tail(dir))
       IN  IF made.err
           THEN [err |-> TRUE, tree |-> t]
           ELSE [err |-> FALSE,
                 tree |-> Dir([n \in (DOMAIN t.entries) \cup {Head(dir)} |->
                                IF n = Head(dir) THEN made.tree ELSE t.entries[n]])]

RECURSIVE PutFile(_, _)
\* the directory t with a file at path, whose directory exists
PutFile(t, path) ==
  IF Len(path) = 1
  THEN Dir([n \in (DOMAIN t.entries) \cup {Head(path)} |->
              IF n = Head(path) THEN File ELSE t.entries[n]])
  ELSE Dir([t.entries EXCEPT ![Head(path)] = PutFile(@, Tail(path))])

\* os.WriteFile(path): the file is made or overwritten; a directory at
\* the path is an error
OsWriteFile(t, path) ==
  IF Lookup(t, path).kind \in {"dir", "notdir"}
  THEN [err |-> TRUE, tree |-> t]
  ELSE [err |-> FALSE, tree |-> PutFile(t, path)]

\* filepath.Dir
DirOf(path) == SubSeq(path, 1, Len(path) - 1)

\* the text result of a tool that deletes nothing
ToolDone(text) == [isError |-> FALSE, text |-> text, deleted |-> <<>>]

writeFileHandler(path, content) ==
  /\ stage = "tool"
  /\ LET made == MkdirAll(tree, DirOf(path))
         written == OsWriteFile(made.tree, path)
         done(result, t) ==
           /\ tree' = t
           /\ ret' = [op |-> "write_file", path |-> path, recursive |-> FALSE,
                      wasDir |-> FALSE, result |-> result]
     IN  IF path = <<>>
         THEN done(ToolError("path parameter is required"), tree)
         ELSE IF content = ""
         THEN done(ToolError("content parameter is required"), tree)
         ELSE IF made.err
         THEN done(ToolError("Failed to create directory"), tree)
         ELSE IF written.err
         THEN done(ToolError("Failed to write file"), made.tree)
         ELSE done(ToolDone("Successfully wrote"), written.tree)
  /\ UNCHANGED <<stage, closed, ctxErr, config, menu, configFile>>
  /\ UNCHANGED catalogVars
  /\ UNCHANGED turnVars

\* edit_line_range with start_line, end_line and operation left at
\* their defaults: the file is read and written back with the new lines
editLineRangeHandler(path, content) ==
  /\ stage = "tool"
  /\ LET done(result) ==
           ret' = [op |-> "edit_line_range", path |-> path, recursive |-> FALSE,
                   wasDir |-> FALSE, result |-> result]
     IN  IF path = <<>>
         THEN done(ToolError("path parameter is required"))
         ELSE IF content = ""
         THEN done(ToolError("content parameter is required"))
         ELSE IF Lookup(tree, path).kind # "file"
         THEN done(ToolError("Failed to read file"))
         ELSE done(ToolDone("Successfully edited lines"))
  /\ UNCHANGED mainVars
  /\ UNCHANGED catalogVars
  /\ UNCHANGED turnVars

\* a command run by the terminal server, which runs in the same working
\* directory: the command leaves any files and directories behind
executeCommand(after) ==
  /\ stage \in {"tool", "crashed"}
  /\ tree' = after
  /\ ret' = [op |-> "run_command", path |-> <<>>, recursive |-> FALSE,
             wasDir |-> FALSE, result |-> ToolDone("Command executed")]
  /\ UNCHANGED <<stage, closed, ctxErr, config, menu, configFile>>
  /\ UNCHANGED catalogVars
  /\ UNCHANGED turnVars

DeleteInit ==
  /\ NewAgent
  /\ stage = "tool"
  /\ closed = <<>>
  /\ ctxErr = NoCtxErr
  /\ config = NoConfig
  /\ menu = NoConfig
  /\ configFile = NoFile
  /\ tree \in Trees(MaxDepth) \ {File}

NextDelete ==
  \/ \E path \in PathsOf(MaxDepth), recursive \in BOOLEAN :
       deleteFileHandler(path, recursive)
  \/ \E path \in PathsOf(MaxDepth), content \in {"", "x"} :
       writeFileHandler(path, content)
  \/ \E path \in PathsOf(MaxDepth), content \in {"", "x"} :
       editLineRangeHandler(path, content)
  \/ \E after \in Trees(MaxDepth) \ {File} : executeCommand(after)

SpecDelete == DeleteInit /\ [][NextDelete]_vars

(***************************************************************************)
(* Turns whose call requests carry argument texts of every kind: a JSON    *)
(* object, null, an array, a string, a number, a cut-off document and the  *)
(* empty text; a request without a name or without an id comes with an     *)
(* object or with an array. The conversation holds MaxCalls call requests  *)
(* at most.                                                                *)
(***************************************************************************)
KindArguments ==
  {ArgsObject, ArgsNull, ArgsEmpty, ArgsMalformed, ArgsArray, ArgsString, ArgsNumber}
KindCalls ==
  ({TRUE} \X CallNames \X KindArguments) \cup
  {<<c[1], c[2], a>> : c \in {<<FALSE, "read_file">>, <<TRUE, "">>},
                       a \in {ArgsObject, ArgsArray}}
KindCallLists ==
  {AnyCalls(c) :
     c \in UNION {[1..n -> KindCalls] : n \in 1..(MaxCalls - Issued(messages))}}

NextKinds ==
  \/ Starting /\ InitConversation(SystemPrompt) /\ UNCHANGED mainVars
  \/ Connecting /\ AddMCPServer(IdServers, TurnToolLists) /\ UNCHANGED mainVars
  \/ LoadTools /\ UNCHANGED mainVars
  \/ Chatting /\ ProcessUserInput("read x.txt") /\ UNCHANGED mainVars
  \/ StreamFailed(NoChoices) /\ UNCHANGED mainVars
  \/ \E m \in WithCalls(KindCallLists) : StreamToolCalls(m) /\ UNCHANGED mainVars
  \/ StreamFinal(Accumulated("done", NoCalls)) /\ UNCHANGED mainVars
  \/ \E outcome \in {InvokeError, InvokeOk(<<"hello">>)} :
       InvokeReturns(outcome) /\ UNCHANGED mainVars

SpecKinds == Init /\ [][NextKinds]_vars

(***************************************************************************)
(* Properties of the catalog's normalization, under SpecNormalize.         *)
(***************************************************************************)
\* the schema the only registered provider advertises for its only tool
SourceSchema == provided[1][1].inputSchema

Names(required) ==
  {required.val[i].val : i \in {j \in DOMAIN required.val : required.val[j].kind = "string"}}

\* C6: no descriptor of the catalog has the reserved parameter name 'uid'
\* in its properties or in its required list, whatever the source schema.
C6_ReservedParamAbsent ==
  \A i \in DOMAIN tools :
    /\ ReservedParam \notin DOMAIN tools[i].parameters.properties.val
    /\ tools[i].parameters.required.kind = "list" =>
         ReservedParam \notin Names(tools[i].parameters.required)

\* C7: every descriptor of the catalog has a parameter schema of type
\* "object" whose properties entry is a map, whatever the source schema.
C7_ObjectSchemaWithProperties ==
  \A i \in DOMAIN tools :
    /\ tools[i].parameters.type = JsonString("object")
    /\ tools[i].parameters.properties.kind = "map"

\* a descriptor made from a source whose type is not "object" and whose
\* properties entry is no map
C7_Witness ==
  /\ Len(tools) = 1
  /\ SourceSchema.kind = "object"
  /\ SourceSchema.val.type = JsonString("string")
  /\ SourceSchema.val.properties = JsonString("x")

\* the descriptor of the catalog taken as a listed tool and normalized again
Renormalize(d) ==
  ConvertTool([name |-> d.name, description |-> d.description,
               inputSchema |-> SchemaObject(d.parameters)])

\* C8: normalizing a descriptor of the catalog again yields the same
\* descriptor.
C8_NormalizationIdempotent ==
  \A i \in DOMAIN tools :
    /\ ~Renormalize(tools[i]).err
    /\ Renormalize(tools[i]).tool = tools[i]

\* a descriptor that normalization changed in type, properties and required
C8_Witness ==
  /\ Len(tools) = 1
  /\ SourceSchema.kind = "object"
  /\ SourceSchema.val.type = Missing
  /\ SourceSchema.val.properties.kind = "map"
  /\ ReservedParam \in DOMAIN SourceSchema.val.properties.val
  /\ SourceSchema.val.required.kind = "list"
  /\ ReservedParam \in Names(SourceSchema.val.required)
  /\ tools[1].parameters # SourceSchema.val

(***************************************************************************)
(* Correlation of tool messages with call requests, under SpecIds.         *)
(***************************************************************************)
\* the call request is one the loop hands to CallTool
Dispatched(toolCall) ==
  /\ toolCall.name # "" /\ toolCall.id # ""
  /\ ~ParseArguments(toolCall.arguments).err

ToolMessages == {p \in DOMAIN messages : messages[p].role = "tool"}

\* the call requests of the assistant messages before position p
RequestsBefore(p) ==
  {<<q, j>> \in (1..(p - 1)) \X (1..MaxCalls) :
     messages[q].role = "assistant" /\ j \in DOMAIN messages[q].toolCalls}

\* the request at position j of message q has had no tool message with
\* its id before position p
Unresolved(q, j, p) ==
  \A r \in ToolMessages :
    q < r /\ r < p => messages[r].toolCallID # messages[q].toolCalls[j].id

\* C1 as stated: every tool message carries the id of exactly one earlier
\* call request that was unresolved, and no id is carried by two tool
\* messages.
C1_OneToolMessagePerId ==
  /\ \A p \in ToolMessages :
       Cardinality({x \in RequestsBefore(p) :
                      /\ messages[x[1]].toolCalls[x[2]].id = messages[p].toolCallID
                      /\ Unresolved(x[1], x[2], p)}) = 1
  /\ \A p, r \in ToolMessages :
       messages[p].toolCallID = messages[r].toolCallID => p = r

\* the position of the message the tool message at p follows: the last one
\* before p that is not a tool message
Requesting(p) ==
  CHOOSE q \in 1..(p - 1) :
    /\ messages[q].role # "tool"
    /\ \A r \in (q + 1)..(p - 1) : messages[r].role = "tool"

\* C1, by request rather than by id: the k-th tool message after an
\* assistant message carries the id of the k-th request of that message
\* that was handed to CallTool, so every tool message answers one request
\* and no request is answered twice.
C1_OneToolMessagePerRequest ==
  \A p \in ToolMessages :
    LET q == Requesting(p)
        handed == SelectSeq(messages[q].toolCalls, Dispatched)
    IN  /\ messages[q].role = "assistant"
        /\ p - q <= Len(handed)
        /\ messages[p].toolCallID = handed[p - q].id

\* an id of an earlier round came back: two tool messages carry it, each
\* after the assistant message of its own round
C1_Witness ==
  \E p, r \in ToolMessages :
    /\ p < r
    /\ messages[p].toolCallID = messages[r].toolCallID
    /\ Requesting(p) # Requesting(r)
    /\ messages[Requesting(p)].toolCalls[1].id = messages[p].toolCallID
    /\ messages[Requesting(r)].toolCalls[1].id = messages[r].toolCallID

(***************************************************************************)
(* Properties of a turn, under Spec.                                       *)
(***************************************************************************)
\* C2: a step in which the stream of a completion request ends with an
\* error leaves the conversation as it was, and ProcessUserInput returns
\* the error: the turn has failed.
C2_StreamErrorAppendsNothing ==
  [][(pc = "AwaitingCompletion" /\ stream' = "failed") =>
       /\ messages' = messages
       /\ pc' = "Failed"
       /\ ret' = Returned("ProcessUserInput", [kind |-> "stream", cause |-> "EOF"])
       /\ ErrorText(ret'.err) = "stream error: EOF"]_vars

\* the stream failed in a later round of a turn, after the tool messages
\* of the round before it
C2_Witness ==
  /\ stream = "failed"
  /\ pc = "Failed"
  /\ ret.op = "ProcessUserInput" /\ ret.err # NoError
  /\ Len(messages) >= 4
  /\ Last(messages).role = "tool"

\* the calls of CallTool the round has seen: the pending one and the
\* returned ones
Frames == {call} \cup {finished[k].frame : k \in DOMAIN finished}

\* the value CallTool returns for a session's successful answer
ResultOf(outcome) ==
  IF outcome.content # <<>>
  THEN [kind |-> "content", text |-> outcome.content[1]]
  ELSE [kind |-> "string", text |-> "Tool executed successfully"]

\* C3: a call invokes the sessions in registration order with the same
\* name and arguments; a successful invoke is the call's last one, and the
\* call returns that session's result without error.
C3_FirstSuccessWins ==
  \A f \in Frames :
    /\ Len(f.invoked) <= Len(servers)
    /\ \A k \in DOMAIN f.invoked :
         /\ f.invoked[k].server = servers[k]
         /\ f.invoked[k].name = f.toolName
         /\ f.invoked[k].arguments = f.arguments
         /\ ~f.invoked[k].outcome.err =>
              /\ k = Len(f.invoked)
              /\ f.status = "returned"
              /\ f.err = NoError
              /\ f.result = ResultOf(f.invoked[k].outcome)
    /\ Cardinality({k \in DOMAIN f.invoked : ~f.invoked[k].outcome.err}) <= 1

\* three sessions; the first answered with an error, the second with a
\* content, the third was not invoked
C3_Witness ==
  /\ Len(servers) = 3
  /\ \E k \in DOMAIN finished :
       LET f == finished[k].frame
       IN  /\ Len(f.invoked) = 2
           /\ f.invoked[1].outcome.err
           /\ f.invoked[2].outcome = InvokeOk(<<"hello">>)
           /\ f.result.text = "hello"

\* C4: a call that got an error from every session, or found no session,
\* has invoked each session once in registration order, and returns no
\* result and the error that names the tool.
C4_AllSessionsFail ==
  \A k \in DOMAIN finished :
    LET f == finished[k].frame
    IN  (\A j \in DOMAIN f.invoked : f.invoked[j].outcome.err) =>
          /\ Len(f.invoked) = Len(servers)
          /\ \A j \in DOMAIN f.invoked : f.invoked[j].server = servers[j]
          /\ f.result = [kind |-> "nil", text |-> ""]
          /\ f.err.kind = "notfound" /\ f.err.name = f.toolName
          /\ ErrorText(f.err) =
               "tool " \o f.toolName \o " not found in any connected server"

\* three sessions, each of which answered the call with an error
C4_Witness ==
  /\ Len(servers) = 3
  /\ \E k \in DOMAIN finished :
       LET f == finished[k].frame
       IN  /\ Len(f.invoked) = 3
           /\ \A j \in DOMAIN f.invoked : f.invoked[j].outcome.err
           /\ f.err # NoError

\* the position of the round's assistant message
RoundStart ==
  CHOOSE p \in DOMAIN messages :
    /\ messages[p].role = "assistant"
    /\ \A q \in DOMAIN messages : q > p => messages[q].role # "assistant"

\* C5: when CallTool has returned an error for a call of the round, the
\* turn goes on: the conversation holds a tool message with the error's
\* text and the call's id, the loop has moved on to the calls after it,
\* and once they are all done a further completion request is open.
C5_DispatchErrorBecomesToolMessage ==
  \A k \in DOMAIN finished :
    LET f == finished[k].frame
        i == finished[k].index
    IN  f.err # NoError =>
          /\ ret = Returned("ProcessUserInput", [kind |-> "running"])
          /\ messages[RoundStart] = ToParam(acc)
          /\ messages[RoundStart + k] =
               [role |-> "tool",
                content |-> "Error: tool " \o acc.toolCalls[i].name
                              \o " not found in any connected server",
                toolCalls |-> <<>>,
                toolCallID |-> acc.toolCalls[i].id]
          /\ pc \in {"ExecutingCapabilities", "AwaitingCompletion"}
          /\ pc = "ExecutingCapabilities" =>
               /\ callIdx > i
               /\ call.status = "invoking"
               /\ Dispatched(acc.toolCalls[callIdx])
               /\ \A j \in (i + 1)..(callIdx - 1) :
                    Dispatched(acc.toolCalls[j]) <=>
                      \E l \in DOMAIN finished : finished[l].index = j
          /\ pc = "AwaitingCompletion" =>
               /\ \A j \in DOMAIN acc.toolCalls :
                    Dispatched(acc.toolCalls[j]) <=>
                      \E l \in DOMAIN finished : finished[l].index = j
               /\ Len(messages) = RoundStart + Len(finished)
               /\ stream = "open"
               /\ request.messages = messages

\* a round of two calls: the first failed on two sessions or more, the
\* second was then run and succeeded, and the next request is open
C5_Witness ==
  /\ pc = "AwaitingCompletion"
  /\ Len(finished) = 2
  /\ Len(finished[1].frame.invoked) >= 2
  /\ finished[1].frame.err # NoError
  /\ finished[2].frame.err = NoError
  /\ messages[Len(messages) - 1].content =
       "Error: tool read_file not found in any connected server"
  /\ request.messages = messages

(***************************************************************************)
(* Properties of the catalog's aggregation, under SpecCatalog.             *)
(***************************************************************************)
\* session i answered the last refresh with a listing every tool of which
\* could be converted
ListingSucceeded(i) ==
  /\ ~listed[i].err
  /\ \A k \in DOMAIN listed[i].tools : ~ConvertTool(listed[i].tools[k]).err

RECURSIVE CatalogOffset(_)
\* the number of catalog entries that come from the sessions before i
CatalogOffset(i) ==
  IF i <= 1
  THEN 0
  ELSE CatalogOffset(i - 1) +
       (IF ListingSucceeded(i - 1) THEN Len(listed[i - 1].tools) ELSE 0)

\* C9: the catalog is the concatenation, in registration order and within a
\* session in listing order, of the normalized descriptors of exactly the
\* sessions whose listing succeeded; equal names are all retained.
C9_CatalogIsConcatenation ==
  /\ Len(tools) = CatalogOffset(Len(listed) + 1)
  /\ \A i \in DOMAIN listed :
       ListingSucceeded(i) =>
         \A k \in DOMAIN listed[i].tools :
           tools[CatalogOffset(i) + k] = ConvertTool(listed[i].tools[k]).tool

\* two sessions list; the first lists two tools, the second a tool with
\* the name of one of them, normalized to a different descriptor
C9_Witness ==
  /\ ret.op = "RefreshTools"
  /\ Len(listed) = 2
  /\ ListingSucceeded(1) /\ ListingSucceeded(2)
  /\ Len(listed[1].tools) = 2 /\ Len(listed[2].tools) = 1
  /\ listed[1].tools[1] # listed[1].tools[2]
  /\ listed[2].tools[1].name = listed[1].tools[1].name
  /\ tools[3] # tools[1]
  /\ Len(tools) = 3

\* C10: RefreshTools returns no error, and when every session's listing
\* failed the cached catalog is empty, whatever it was before.
C10_RefreshNeverFails ==
  ret.op = "RefreshTools" =>
    /\ ret.err = NoError
    /\ (\A i \in DOMAIN listed : listed[i].err) => tools = <<>>

\* every session failed to list although each provider exposes a tool
\* that an earlier refresh could have cached
C10_Witness ==
  /\ ret.op = "RefreshTools"
  /\ Len(listed) = CatalogServers
  /\ \A i \in DOMAIN listed : listed[i].err
  /\ \A i \in DOMAIN provided :
       provided[i] # <<>> /\ \A k \in DOMAIN provided[i] : ~ConvertTool(provided[i][k]).err
  /\ tools = <<>>

(***************************************************************************)
(* Properties of the conversation, under Spec.                             *)
(***************************************************************************)
SystemMessages == {p \in DOMAIN messages : messages[p].role = "system"}
UserMessages == {p \in DOMAIN messages : messages[p].role = "user"}
AssistantMessages == {p \in DOMAIN messages : messages[p].role = "assistant"}

\* C11: once the conversation is initialized it has one system message,
\* at the first position, with the prompt of the last initialization,
\* whatever turns have been processed (under SpecInit).
C11_OneSystemMessageFirst ==
  messages # <<>> =>
    /\ SystemMessages = {1}
    /\ systemPrompt \in Prompts
    /\ messages[1] = [role |-> "system", content |-> systemPrompt,
                      toolCalls |-> <<>>, toolCallID |-> ""]

\* two turns were processed on a conversation initialized with the other
\* prompt, the later one is done
C11_Witness ==
  /\ pc = "Done"
  /\ systemPrompt # SystemPrompt
  /\ Cardinality(UserMessages) >= 2
  /\ AssistantMessages # {}
  /\ SystemMessages = {1}

\* C12: every assistant message of the conversation has a content or call
\* requests.
C12_NoEmptyAssistantMessage ==
  \A p \in AssistantMessages :
    messages[p].content # "" \/ messages[p].toolCalls # <<>>

\* C13: every step leaves the conversation it found as a prefix of the
\* conversation it makes.
C13_AppendOnly ==
  [][/\ Len(messages) <= Len(messages')
     /\ SubSeq(messages', 1, Len(messages)) = messages]_vars

\* a turn with a round of calls was followed by a turn whose stream failed
C13_Witness ==
  /\ pc = "Failed"
  /\ \E p, q, r \in DOMAIN messages :
       /\ p < q /\ q < r
       /\ messages[p].role = "user"
       /\ messages[q].role = "tool"
       /\ messages[r].role = "user"
       /\ \A t \in DOMAIN messages : t > r => messages[t].role # "user"

\* C14: when a turn is done the conversation ends with an assistant
\* message without call requests, later than the turn's user message.
C14_DoneEndsWithAnswer ==
  pc = "Done" =>
    /\ Last(messages).role = "assistant"
    /\ Last(messages).toolCalls = <<>>

\* part occurs in text, for the texts a tool message can hold
Contains(text, part) ==
  \E before \in {"", "&{", "Error: "}, after \in {"", "}"} :
    text = before \o part \o after

\* C15: when the first round of a turn had one call, which a session
\* served, and the second round brings an answer without calls, the turn
\* has appended four messages: the user message, the assistant message
\* with the call, a tool message with the call's id and the served content
\* in its text, and the answer.
C15_OneCallTurnAppendsFour ==
  [][(/\ pc = "AwaitingCompletion" /\ pc' = "Done"
      /\ Len(messages') = Len(messages) + 1
      /\ Len(acc.toolCalls) = 1 /\ Len(finished) = 1
      /\ finished[1].frame.err = NoError
      /\ messages[Len(messages) - 2].role = "user")
     => LET n == Len(messages')
            served == Last(finished[1].frame.invoked).outcome
        IN  /\ \A p \in 1..n : messages'[p].role = "user" => p <= n - 3
            /\ messages'[n - 3].role = "user"
            /\ messages'[n - 2] =
                 [role |-> "assistant", content |-> acc.content,
                  toolCalls |-> acc.toolCalls, toolCallID |-> ""]
            /\ messages'[n - 1].role = "tool"
            /\ messages'[n - 1].toolCallID = acc.toolCalls[1].id
            /\ served.content # <<>> =>
                 Contains(messages'[n - 1].content, served.content[1])
            /\ messages'[n].role = "assistant"
            /\ messages'[n].toolCalls = <<>>]_vars

\* the turn "read x.txt": one call of read_file served with the content
\* hello, then the answer
C15_Witness ==
  /\ pc = "Done"
  /\ Len(messages) >= 5
  /\ LET n == Len(messages)
     IN  /\ messages[n - 3] = UserMessage("read x.txt")
         /\ messages[n - 2].role = "assistant"
         /\ Len(messages[n - 2].toolCalls) = 1
         /\ messages[n - 2].toolCalls[1].name = "read_file"
         /\ messages[n - 2].toolCalls[1].arguments = ArgsObject
         /\ messages[n - 1].role = "tool"
         /\ messages[n - 1].toolCallID = messages[n - 2].toolCalls[1].id
         /\ Contains(messages[n - 1].content, "hello")
         /\ messages[n] = [role |-> "assistant", content |-> "done",
                           toolCalls |-> <<>>, toolCallID |-> ""]

\* the round's calls that the loop has gone past
Passed == IF pc = "ExecutingCapabilities" THEN callIdx - 1 ELSE Len(acc.toolCalls)

\* C16: the calls of a round run one at a time and in the order of the
\* requests: an invoke is pending only for the call the loop is at, every
\* call before it that was handed to CallTool has returned and has its
\* tool message in the conversation, and the tool messages follow the
\* assistant message in the order of their requests.
C16_CallsRunInOrder ==
  /\ pc = "ExecutingCapabilities" <=> call.status = "invoking"
  /\ \A k \in DOMAIN finished : finished[k].frame.status = "returned"
  /\ (pc = "ExecutingCapabilities" \/ finished # <<>>) =>
       /\ messages[RoundStart] = ToParam(acc)
       /\ Len(messages) = RoundStart + Len(finished)
       /\ \A k \in DOMAIN finished :
            /\ finished[k].index <= Passed
            /\ k > 1 => finished[k - 1].index < finished[k].index
            /\ messages[RoundStart + k].role = "tool"
            /\ messages[RoundStart + k].toolCallID =
                 acc.toolCalls[finished[k].index].id
       /\ \A j \in 1..Passed :
            Dispatched(acc.toolCalls[j]) <=>
              \E k \in DOMAIN finished : finished[k].index = j
       /\ pc = "ExecutingCapabilities" => Dispatched(acc.toolCalls[callIdx])

\* the second call of a round is at its second session, after the first
\* call's tool message was appended
C16_Witness ==
  /\ pc = "ExecutingCapabilities"
  /\ callIdx = 2
  /\ Len(finished) = 1 /\ finished[1].index = 1
  /\ Len(call.invoked) >= 1
  /\ Last(messages).role = "tool"
  /\ Last(messages).toolCallID = acc.toolCalls[1].id

\* the arguments of the call request do not parse
Unparsed(toolCall) == ParseArguments(toolCall.arguments).err

\* C17: a call request whose arguments do not parse gets no tool message,
\* is not the call of any invoke, and leaves the turn running: the loop
\* goes past it to the later calls and to the next completion request.
C17_UnparsedCallIsSkipped ==
  /\ \A q \in AssistantMessages :
       \A j \in DOMAIN messages[q].toolCalls :
         Unparsed(messages[q].toolCalls[j]) =>
           \A p \in ToolMessages :
             messages[p].toolCallID # messages[q].toolCalls[j].id
  /\ \A j \in DOMAIN acc.toolCalls :
       Unparsed(acc.toolCalls[j]) =>
         /\ pc \in {"ExecutingCapabilities", "AwaitingCompletion"}
         /\ ret = Returned("ProcessUserInput", [kind |-> "running"])
         /\ callIdx # j
         /\ \A k \in DOMAIN finished : finished[k].index # j
         /\ \A i \in (j + 1)..Passed :
              Dispatched(acc.toolCalls[i]) <=>
                \E k \in DOMAIN finished : finished[k].index = i
         /\ pc = "AwaitingCompletion" =>
              stream = "open" /\ request.messages = messages

\* a round of two calls: the arguments of the first did not parse, the
\* second was served, and the next request holds its tool message only
C17_Witness ==
  /\ pc = "AwaitingCompletion"
  /\ Len(acc.toolCalls) = 2
  /\ acc.toolCalls[1].arguments = ArgsMalformed
  /\ Len(finished) = 1 /\ finished[1].index = 2
  /\ finished[1].frame.err = NoError
  /\ Len(messages) = RoundStart + 1
  /\ Last(messages).toolCallID = acc.toolCalls[2].id
  /\ request.messages = messages

\* C19: a completion request is open only while no call is being run,
\* and it is made from the whole conversation and the catalog: after a
\* round of calls its messages end with the round's assistant message
\* followed by the tool messages of all the calls handed to CallTool.
C19_RoundsAreSequential ==
  /\ stream = "open" <=> pc = "AwaitingCompletion"
  /\ pc = "ExecutingCapabilities" => request.messages # messages
  /\ pc = "AwaitingCompletion" =>
       /\ request = [messages |-> messages, model |-> config.model,
                     tools |-> tools, parallelToolCalls |-> FALSE]
       /\ acc.toolCalls # <<>> =>
            LET handed == SelectSeq(acc.toolCalls, Dispatched)
                start == Len(request.messages) - Len(handed)
            IN  /\ Len(finished) = Len(handed)
                /\ request.messages[start] = ToParam(acc)
                /\ \A k \in DOMAIN handed :
                     /\ request.messages[start + k].role = "tool"
                     /\ request.messages[start + k].toolCallID = handed[k].id
                     /\ finished[k].frame.status = "returned"

\* the request after a round of two calls, both handed to CallTool
C19_Witness ==
  /\ pc = "AwaitingCompletion" /\ stream = "open"
  /\ Len(acc.toolCalls) = 2 /\ Len(finished) = 2
  /\ LET n == Len(request.messages)
     IN  /\ request.messages[n - 2].toolCalls = acc.toolCalls
         /\ request.messages[n - 1].toolCallID = acc.toolCalls[1].id
         /\ request.messages[n].toolCallID = acc.toolCalls[2].id

\* C20: ProcessUserInput returns an error only for a failed stream: the
\* turn is failed only when the stream has failed, exactly when the
\* error of the stream is returned, and as long as calls are run, and
\* after a round of calls, whatever came of them, the turn goes on.
C20_OnlyStreamErrorFailsTurn ==
  /\ pc = "Failed" => stream = "failed"
  /\ ret.op = "ProcessUserInput" =>
       /\ ret.err \in {NoError, [kind |-> "running"],
                       [kind |-> "stream", cause |-> "EOF"]}
       /\ ret.err = [kind |-> "stream", cause |-> "EOF"] <=> pc = "Failed"
  /\ (pc = "ExecutingCapabilities" \/ acc.toolCalls # <<>>) =>
       /\ ret = Returned("ProcessUserInput", [kind |-> "running"])
       /\ pc \in {"ExecutingCapabilities", "AwaitingCompletion"}

\* a turn is done without error after a round in which the arguments of
\* one call did not parse and the other call failed on every session
C20_Witness ==
  /\ pc = "Done"
  /\ ret = Returned("ProcessUserInput", NoError)
  /\ Len(messages) >= 5
  /\ LET n == Len(messages)
     IN  /\ messages[n - 3].role = "user"
         /\ Len(messages[n - 2].toolCalls) = 2
         /\ \E j \in 1..2 : Unparsed(messages[n - 2].toolCalls[j])
         /\ messages[n - 1] =
              ToolMessage("Error: tool read_file not found in any connected server",
                          messages[n - 1].toolCallID)
         /\ messages[n].role = "assistant"
         /\ Len(servers) >= 1

\* the position of the user message of the last turn
TurnStart ==
  CHOOSE p \in UserMessages : \A q \in UserMessages : q <= p

\* the rounds of calls of the last turn: the positions of its assistant
\* messages with call requests
Rounds == {p \in AssistantMessages : p > TurnStart /\ messages[p].toolCalls # <<>>}

\* C21: when a turn has failed, the conversation is the one the failing
\* round's request was made from: the conversation before the turn, the
\* user message, and for every round before the failing one its
\* assistant message with the tool messages of its calls; the step that
\* fails the turn changes nothing of it.
C21_FailedKeepsWhatWasAppended ==
  [][(pc' = "Failed" /\ pc # "Failed") =>
       /\ messages' = messages
       /\ messages' = request.messages
       /\ UserMessages # {}
       /\ \A p \in (TurnStart + 1)..Len(messages') :
            \/ p \in Rounds
            \/ /\ messages'[p].role = "tool"
               /\ \E q \in Rounds :
                    /\ q < p
                    /\ \E j \in DOMAIN messages'[q].toolCalls :
                         /\ Dispatched(messages'[q].toolCalls[j])
                         /\ messages'[q].toolCalls[j].id = messages'[p].toolCallID]_vars

\* the third round of a turn failed: the user message and the two rounds
\* before it are there
C21_Witness ==
  /\ pc = "Failed"
  /\ Cardinality(Rounds) = 2
  /\ Last(messages).role = "tool"
  /\ messages = request.messages
  /\ Len(messages) > TurnStart + 2

\* C23: whatever the number of rounds the turn has had, when the calls of
\* a round are all processed a completion request is open on the whole
\* conversation; nothing but the answers of the model ends the turn.
C23_CallsAreFollowedByRequest ==
  (acc.toolCalls # <<>> /\ pc # "ExecutingCapabilities") =>
    /\ pc = "AwaitingCompletion"
    /\ stream = "open"
    /\ request.messages = messages
    /\ Last(messages).role \in {"assistant", "tool"}
    /\ Rounds # {}

\* the fourth request of a turn: three rounds of calls came before it
C23_Witness ==
  /\ pc = "AwaitingCompletion"
  /\ stream = "open"
  /\ Cardinality(Rounds) >= 3
  /\ acc.toolCalls # <<>>

(***************************************************************************)
(* Call requests with any name and id, under SpecAny.                      *)
(***************************************************************************)
\* C18: when no round is under way, every call request of the
\* conversation whose arguments parse has one tool message with its id
\* among the tool messages of its round, whatever its name and id.
C18_OneToolMessagePerParsedCall ==
  pc # "ExecutingCapabilities" =>
    \A q \in AssistantMessages :
      \A j \in DOMAIN messages[q].toolCalls :
        ~Unparsed(messages[q].toolCalls[j]) =>
          Cardinality({p \in ToolMessages :
                         /\ Requesting(p) = q
                         /\ messages[p].toolCallID = messages[q].toolCalls[j].id})
            = 1

(***************************************************************************)
(* Termination of a turn, under SpecLive.                                  *)
(***************************************************************************)
InTurn == pc \in {"AwaitingCompletion", "ExecutingCapabilities"}

\* C22: when no stream fails, every invocation returns and the model
\* eventually answers without call requests, a turn that has started
\* reaches Done; the first stream that ends without call requests ends the
\* turn, and no completion request is made after it.
C22_TurnReachesDone ==
  /\ InTurn ~> (pc = "Done")
  /\ [][(pc = "AwaitingCompletion" /\ acc' = NoChoices) =>
          /\ pc' = "Done"
          /\ stream' = "ended"
          /\ request' = request]_vars

\* a turn is Done after a round of calls and an answer of the model
C22_Witness ==
  /\ pc = "Done"
  /\ Rounds # {}
  /\ Last(messages).role = "assistant"
  /\ Last(messages).toolCalls = <<>>
  /\ \E p \in DOMAIN messages : p > TurnStart /\ messages[p].role = "tool"

(***************************************************************************)
(* Cancellation and deadlines, under SpecCancel.                           *)
(***************************************************************************)
\* C24: once the context is done during a turn, whether a stream is open
\* or an invoke is in flight, the turn ends in Failed, and no step that
\* starts with the context done appends an assistant message.
C24_CancelledTurnFails ==
  /\ (ctxErr # NoCtxErr /\ InTurn) ~> (pc = "Failed")
  /\ [][ctxErr # NoCtxErr =>
          /\ pc' # "Done"
          /\ \A p \in DOMAIN messages' :
               p > Len(messages) => messages'[p].role # "assistant"]_vars

\* the invokes of a call that ended on the deadline of the context
Expired(f) ==
  {j \in DOMAIN f.invoked : f.invoked[j].outcome = InvokeCtxError(DeadlineExceeded)}

\* C25: a call whose invoke exceeded the deadline returns an error that is
\* not the error of a tool no session has, its tool message reports it,
\* and the turn goes on with the next completion.
C25_DeadlineIsExecutionError ==
  \A k \in DOMAIN finished :
    Expired(finished[k].frame) # {} =>
      /\ finished[k].frame.err # NoError
      /\ finished[k].frame.err # NotFoundError(finished[k].frame.toolName)

(***************************************************************************)
(* The arguments of the invokes, under SpecArgs.                           *)
(***************************************************************************)
\* the arguments a session receives are those of the request with the
\* agent's user id under 'uid'
Injected(sent, text) ==
  LET parsed == ParseArguments(text).args
  IN  /\ ~sent.isNil
      /\ DOMAIN sent.map = (DOMAIN parsed.map) \cup {ReservedParam}
      /\ sent.map[ReservedParam] = userID
      /\ \A k \in (DOMAIN parsed.map) \ {ReservedParam} : sent.map[k] = parsed.map[k]

\* C27: the invoke in flight and every invoke a call of the round has made
\* carry uid = the agent's user id, also when the request had no argument
\* map or a uid of its own; the other arguments are those of the request,
\* and every session of the call receives the same name and arguments.
C27_UidInjected ==
  /\ call.status = "invoking" =>
       Injected(call.arguments, acc.toolCalls[callIdx].arguments)
  /\ \A f \in Frames :
       \A j \in DOMAIN f.invoked :
         /\ f.invoked[j].arguments = f.arguments
         /\ f.invoked[j].name = f.toolName
         /\ f.invoked[j].server = servers[j]
  /\ \A k \in DOMAIN finished :
       LET f == finished[k].frame
       IN  /\ Injected(f.arguments, acc.toolCalls[finished[k].index].arguments)
           /\ f.toolName = acc.toolCalls[finished[k].index].name

\* a call whose request had its own uid went to two sessions, and the
\* invoke in flight is of a request without an argument map
C27_Witness ==
  /\ call.status = "invoking"
  /\ acc.toolCalls[callIdx].arguments = ArgsNull
  /\ call.arguments = GoMap([uid |-> userID])
  /\ \E k \in DOMAIN finished :
       /\ acc.toolCalls[finished[k].index].arguments = ArgsWithUid
       /\ Len(finished[k].frame.invoked) = 2
       /\ finished[k].frame.invoked[2].arguments = GoMap([uid |-> userID, path |-> "x.txt"])

(***************************************************************************)
(* The chat loop and the shutdown, under SpecMain.                         *)
(***************************************************************************)
\* C26: a stream is open only while the turn awaits a completion and an
\* invoke is in flight only while it executes capabilities, so the two
\* never overlap; the one invoke in flight is that of the one call in
\* progress, on one session; while a turn is in AwaitingCompletion or
\* ExecutingCapabilities no step registers a session or refreshes the
\* catalog, and no other turn starts.
C26_OneOperationInFlight ==
  /\ [](/\ ~(stream = "open" /\ call.status = "invoking")
        /\ stream = "open" => pc = "AwaitingCompletion"
        /\ call.status = "invoking" =>
             /\ pc = "ExecutingCapabilities"
             /\ Len(call.invoked) < Len(servers)
        /\ InTurn => stage = "turn")
  /\ [][InTurn =>
          /\ servers' = servers
          /\ tools' = tools
          /\ listed' = listed
          /\ ret'.op \notin {"AddMCPServer", "RefreshTools"}
          /\ Cardinality(UserMessages) = Cardinality({p \in DOMAIN messages' :
                                               messages'[p].role = "user"})]_vars

\* the catalog was refreshed from the settings menu between two turns,
\* and an invoke of the second turn is in flight
C26_Witness ==
  /\ stage = "turn"
  /\ call.status = "invoking"
  /\ stream = "ended"
  /\ Cardinality(UserMessages) = 2
  /\ listed # <<>> /\ listed[1] = ListError

\* C28: when main has exited after a session was registered, every
\* registered session has been closed.
C28_SessionsClosedAtExit ==
  (stage \in {"exited", "exit1"} /\ servers # <<>>) => closed = servers

\* C29: a turn hands control back to the chat loop and to nothing else,
\* whether it ended in Done or in Failed; the loop then starts the next
\* turn by appending the utterance to the same conversation.
C29_TurnReturnsToChatLoop ==
  /\ [][stage = "turn" => stage' \in {"turn", "chat"}]_vars
  /\ [][(stage = "chat" /\ stage' = "turn") =>
          /\ Len(messages') = Len(messages) + 1
          /\ SubSeq(messages', 1, Len(messages)) = messages
          /\ Last(messages').role = "user"
          /\ pc' = "AwaitingCompletion"]_vars
  /\ (stage = "turn" /\ Resting) ~> (stage = "chat")

\* the chat loop reads the next line after a turn that failed, which
\* itself came after a turn that ended in Done with an answer
C29_Witness ==
  /\ stage = "chat"
  /\ pc = "Failed"
  /\ ret.err = [kind |-> "stream", cause |-> "EOF"]
  /\ Cardinality(UserMessages) = 2
  /\ Last(messages).role = "user"
  /\ messages[Len(messages) - 1].role = "assistant"

(***************************************************************************)
(* The reset of the configuration, under SpecConfig.                       *)
(***************************************************************************)
\* C30: when the round of the configuration menu in which the user chose
\* 'Reset all configuration', answered 'y' and the file was removed is
\* complete, there is no configuration file.
C30_ResetDeletesConfigFile ==
  (/\ stage = "menu"
   /\ ret.op = "showConfigurationSettings"
   /\ ret.choice = "4"
   /\ ret.confirmed
   /\ ret.removed) => configFile = NoFile

\* what the next completion request of the running agent uses for a field
\* of the configuration: the model of the request, and the key and the
\* base URL of the client
RequestValue(field) ==
  IF field = "model" THEN CompletionRequest(messages).model ELSE ClientOptions[field]

\* C31: when a round of the configuration menu has changed the API key,
\* the base URL or the model and saved the file, the next completion
\* request of the running agent uses the new value.
C31_ChangeTakesEffect ==
  (/\ stage = "menu"
   /\ ret.op = "showConfigurationSettings"
   /\ ret.choice \in {"1", "2", "3"}
   /\ ret.changed
   /\ ret.err = NoError) =>
     /\ configFile = FileOf(menu)
     /\ RequestValue(FieldOf(ret.choice)) = menu[FieldOf(ret.choice)]

(***************************************************************************)
(* delete_file, under SpecDelete.                                          *)
(***************************************************************************)
\* C32: after delete_file with recursive=true on a path that was a
\* directory, the result is a success and nothing is left at the path.
C32_RecursiveDeleteRemovesTree ==
  (ret.op = "delete_file" /\ ret.recursive /\ ret.wasDir) =>
    /\ ~ret.result.isError
    /\ Lookup(tree, ret.path).kind = "none"

(***************************************************************************)
(* The requests of a turn started from the chat loop, under SpecMain.      *)
(***************************************************************************)
\* C33: the step that starts a turn appends the user message and makes
\* the first request from the conversation that ends with it; every open
\* request was made from the whole conversation and the cached catalog as
\* they are.
C33_RequestCarriesConversation ==
  /\ [](stream = "open" =>
          /\ request.messages = messages
          /\ request.tools = tools
          /\ UserMessages # {})
  /\ [][(Resting /\ pc' = "AwaitingCompletion") =>
          /\ Len(messages') = Len(messages) + 1
          /\ SubSeq(messages', 1, Len(messages)) = messages
          /\ Last(messages').role = "user"
          /\ Last(messages').content \in Lines \ {"", "  "}
          /\ request'.messages = messages'
          /\ request'.tools = tools]_vars

\* the first request of a second turn, with a catalog of two sessions
C33_Witness ==
  /\ stage = "turn"
  /\ stream = "open"
  /\ Last(messages).role = "user"
  /\ Cardinality(UserMessages) = 2
  /\ Len(servers) = 2
  /\ Len(tools) = 2
  /\ request.tools = tools
  /\ request.messages = messages

(***************************************************************************)
(* Blank utterances, under Spec.                                           *)
(***************************************************************************)
\* C34: the conversation never holds a user message that is empty or
\* white space; a call of ProcessUserInput that starts no turn returns
\* without error and leaves the conversation, the last request, its
\* stream and the calls of CallTool as they were.
C34_BlankStartsNoTurn ==
  /\ [](\A p \in UserMessages : messages[p].content \notin {"", " ", "  "})
  /\ [][(Resting /\ ret'.op = "ProcessUserInput" /\ pc' \notin {"AwaitingCompletion"}) =>
          /\ ret'.err = NoError
          /\ pc' = "Idle"
          /\ messages' = messages
          /\ request' = request
          /\ stream' = stream
          /\ stream' # "open"
          /\ call' = call
          /\ finished' = finished]_vars

\* a blank utterance after a turn that ended in Done
C34_Witness ==
  /\ pc = "Idle"
  /\ ret = Returned("ProcessUserInput", NoError)
  /\ stream = "ended"
  /\ Last(messages).role = "assistant"
  /\ request.messages # messages

(***************************************************************************)
(* The registry and the catalog during a turn, under Spec.                 *)
(***************************************************************************)
\* C35: no step of a turn, from the utterance to Done or Failed, changes
\* the registry or the cached catalog; the requests of all rounds carry
\* that catalog, and the calls invoke the sessions in the registry's order.
C35_TurnKeepsRegistryAndCatalog ==
  /\ [][(InTurn \/ pc' # pc \/ ret'.op = "ProcessUserInput") =>
          /\ servers' = servers
          /\ tools' = tools]_vars
  /\ [](InTurn =>
          /\ request.tools = tools
          /\ \A f \in Frames :
               \A j \in DOMAIN f.invoked : f.invoked[j].server = servers[j])

\* the request of a second round, after a call that went through the
\* three sessions of the registry
C35_Witness ==
  /\ pc = "AwaitingCompletion"
  /\ Rounds # {}
  /\ Len(servers) = 3
  /\ request.tools = tools
  /\ Len(tools) = 3
  /\ \E k \in DOMAIN finished : Len(finished[k].frame.invoked) = 3

(***************************************************************************)
(* Registration of sessions, under SpecCatalog.                            *)
(***************************************************************************)
\* C36: a call of AddMCPServer that returns no error has put one session
\* at the end of the registry and kept the others in their order; a call
\* that returns an error has left the registry as it was; neither changes
\* the cached catalog.
C36_RegistryGrowsAtEnd ==
  [][ret'.op = "AddMCPServer" =>
       /\ tools' = tools
       /\ IF ret'.err = NoError
          THEN /\ Len(servers') = Len(servers) + 1
               /\ SubSeq(servers', 1, Len(servers)) = servers
               /\ Last(servers') \notin {servers[i] : i \in DOMAIN servers}
               /\ SubSeq(provided', 1, Len(provided)) = provided
          ELSE /\ ret'.err.kind = "connect"
               /\ servers' = servers
               /\ provided' = provided]_vars

\* a connection failed after a session was registered and listed
C36_Witness ==
  /\ ret.op = "AddMCPServer"
  /\ ret.err = [kind |-> "connect", name |-> 2]
  /\ servers = <<1>>
  /\ Len(listed) = 1

(***************************************************************************)
(* The control inputs of the chat loop, under SpecChat.                    *)
(***************************************************************************)
\* the words that end the loop, the lines that open the settings and the
\* empty lines, as the user types them
ExitLines == {"exit", "quit", "bye", "QUIT", "Bye", " Exit "}
SettingsLines == {"/settings", "/Settings"}
EmptyLines == {"", "  "}
ControlLines == ExitLines \cup SettingsLines \cup EmptyLines \cup {"@"}

\* C37: the user messages of the conversation are the lines that are no
\* control input, an @ line with the selected path in its place; an
\* iteration of the chat loop that starts no turn and every step inside
\* the settings menus leave the conversation, the last request and its
\* stream as they were, and so does the iteration that ends the loop.
\* An iteration that reads exit, quit or bye, in any letter case, ends the
\* loop without error; one that reads /settings opens the settings menu;
\* one that reads an empty line changes nothing; one that reads an @ line
\* starts a turn only with a selected path in the line; and the loop ends
\* on such a word only.
C37_ControlInputsStayOut ==
  /\ [](\A p \in UserMessages :
          /\ messages[p].content \notin ControlLines
          /\ messages[p].content \in (ChatLines \ ControlLines) \cup {InsertPath("@", "/w/x.txt")})
  /\ [][(stage \in {"chat", "settings", "mcp", "menu"} /\ stage' # "turn") =>
          UNCHANGED <<messages, pc, acc, callIdx, call, finished, request, stream>>]_vars
  /\ [][(stage = "chat" /\ stage' = "turn") =>
          /\ pc' = "AwaitingCompletion"
          /\ Last(messages').role = "user"
          /\ request'.messages = messages']_vars
  /\ [][\A line \in ExitLines :
          ChatLoop(line) =>
            /\ stage' = "closing"
            /\ ret' = Returned("ChatLoop", NoError)
            /\ UNCHANGED <<messages, pc, request, stream>>]_vars
  /\ [][\A line \in SettingsLines :
          ChatLoop(line) =>
            /\ stage' = "settings"
            /\ UNCHANGED <<messages, pc, request, stream>>]_vars
  /\ [][\A line \in EmptyLines : ChatLoop(line) => UNCHANGED vars]_vars
  /\ [][ChatLoop("@") =>
          \/ UNCHANGED vars
          \/ /\ stage' = "turn"
             /\ Last(messages').content = InsertPath("@", "/w/x.txt")]_vars
  /\ [][stage' = "closing" =>
          /\ stage = "chat"
          /\ \E line \in ExitLines : ChatLoop(line)
          /\ ret' = Returned("ChatLoop", NoError)]_vars

\* the loop ended by a control input after a turn on a typed line, a turn
\* on an @ line with a selected file, and a visit of the settings that
\* saved the configuration
C37_Witness ==
  /\ stage = "closing"
  /\ configFile # NoFile
  /\ ret = Returned("ChatLoop", NoError)
  /\ {messages[p].content : p \in UserMessages} = {"read x.txt", InsertPath("@", "/w/x.txt")}
  /\ stream # "open"

(***************************************************************************)
(* A session's descriptors in the catalog, under SpecCatalog.              *)
(***************************************************************************)
\* every descriptor session i listed at the last refresh, converted
AllOf(i) == [k \in DOMAIN listed[i].tools |-> ConvertTool(listed[i].tools[k]).tool]

\* the listing of session i failed, or the schema of one of its
\* descriptors could not be converted
Dropped(i) ==
  \/ listed[i].err
  \/ \E k \in DOMAIN listed[i].tools : DecodeSchema(listed[i].tools[k].inputSchema).err

RECURSIVE KeptFrom(_)
\* the descriptors of the sessions from i on, a session's all or none
KeptFrom(i) ==
  IF i > Len(listed)
  THEN <<>>
  ELSE (IF Dropped(i) THEN <<>> ELSE AllOf(i)) \o KeptFrom(i + 1)

\* C38: the catalog holds, session by session, either every descriptor the
\* session listed or none of them; it holds none exactly when the listing
\* failed or one schema of the session could not be converted, whatever
\* the other sessions listed.
C38_SessionAllOrNothing == tools = KeptFrom(1)

\* the first session lists a convertible descriptor and one that is not
\* and has nothing in the catalog; the second session has all of its own
C38_Witness ==
  /\ ret.op = "RefreshTools"
  /\ Len(listed) = 2
  /\ ~listed[1].err
  /\ Len(listed[1].tools) = 2
  /\ ~ConvertTool(listed[1].tools[1]).err
  /\ ConvertTool(listed[1].tools[2]).err
  /\ ~Dropped(2)
  /\ tools = AllOf(2)
  /\ tools # <<>>

(***************************************************************************)
(* What normalization leaves alone, under SpecNormalize.                   *)
(***************************************************************************)
NotReserved(entry) == entry # JsonString(ReservedParam)

\* C39: when the source schema is an object schema with a properties map,
\* the descriptor of the catalog has the name and the description of the
\* source, the properties of the source other than 'uid', each as it was,
\* and the entries of the source's required other than 'uid', in their
\* order.
C39_NormalizationFrame ==
  (/\ Len(tools) = 1
   /\ SourceSchema.kind = "object"
   /\ SourceSchema.val.type = JsonString("object")
   /\ SourceSchema.val.properties.kind = "map") =>
    LET src == SourceSchema.val
        out == tools[1].parameters
    IN  /\ tools[1].name = provided[1][1].name
        /\ tools[1].description = provided[1][1].description
        /\ out.type = src.type
        /\ DOMAIN out.properties.val = DOMAIN src.properties.val \ {ReservedParam}
        /\ \A k \in DOMAIN out.properties.val :
             out.properties.val[k] = src.properties.val[k]
        /\ IF src.required.kind = "list"
           THEN /\ out.required.kind = "list"
                /\ SelectSeq(out.required.val, NotReserved) =
                     SelectSeq(src.required.val, NotReserved)
           ELSE out.required = src.required

(***************************************************************************)
(* The argument text of a dispatched call, under SpecKinds.                *)
(***************************************************************************)
\* what kind of JSON document an argument text is
JsonKind(text) ==
  CASE text \in {ArgsObject, ArgsWithUid, ArgsEmptyObject} -> "object"
    [] text = ArgsNull -> "null"
    [] text = ArgsArray -> "array"
    [] text = ArgsString -> "string"
    [] text = ArgsNumber -> "number"
    [] text = ArgsEmpty -> "empty"
    [] OTHER -> "malformed"

Dispatchable(toolCall) ==
  /\ toolCall.name # ""
  /\ toolCall.id # ""
  /\ JsonKind(toolCall.arguments) \in {"object", "null"}

\* C40: the call CallTool is running and the calls of the round that have
\* returned are requests with a name, an id and an argument text that is a
\* JSON object or null; a tool message answers such a request only, and a
\* request of any other kind keeps the conversation without a tool message
\* of its id.
C40_OnlyObjectOrNullDispatched ==
  /\ pc = "ExecutingCapabilities" =>
       /\ Dispatchable(acc.toolCalls[callIdx])
       /\ call.toolName = acc.toolCalls[callIdx].name
  /\ \A k \in DOMAIN finished : Dispatchable(acc.toolCalls[finished[k].index])
  /\ \A p \in ToolMessages :
       \E q \in AssistantMessages :
         /\ q < p
         /\ \E j \in DOMAIN messages[q].toolCalls :
              /\ messages[q].toolCalls[j].id = messages[p].toolCallID
              /\ Dispatchable(messages[q].toolCalls[j])
  /\ \A q \in AssistantMessages :
       \A j \in DOMAIN messages[q].toolCalls :
         ~Dispatchable(messages[q].toolCalls[j]) =>
           \A p \in ToolMessages :
             messages[p].toolCallID = "" \/
             messages[p].toolCallID # messages[q].toolCalls[j].id

\* a round whose first request carries a JSON array and was passed over
\* and whose second request carries null and is being invoked
C40_Witness ==
  /\ pc = "ExecutingCapabilities"
  /\ Len(acc.toolCalls) = 2
  /\ acc.toolCalls[1].name = "read_file" /\ acc.toolCalls[1].id # ""
  /\ acc.toolCalls[1].arguments = ArgsArray
  /\ acc.toolCalls[2].arguments = ArgsNull
  /\ callIdx = 2
  /\ finished = <<>>
  /\ call.toolName = "read_file"
  /\ call.status = "invoking"
  /\ ToolMessages = {}

====
